---- MODULE Spec2Model ----
(***************************************************************************)
(* Model of the filesync crate: the tracking-file store (lib.rs), the      *)
(* directory walk (lib.rs) and the manifest entry / manifest codec         *)
(* (structures.rs).                                                        *)
(*                                                                         *)
(* A Rust String, &str, OsStr or file content is a sequence of bytes       *)
(* (0..255); text is UTF-8.  Option<T> is <<>> (None) or <<v>> (Some(v)).  *)
(***************************************************************************)
EXTENDS Integers, Sequences, FiniteSets, TLC

VARIABLES
    tree,       \* the directory: relative path (bytes) -> node, without the tracking file
    tfile,      \* dir/filesync_tracking.txt: [kind, content], kind "none" when absent
    pc,         \* "idle", "walking" (inside discover_files) or "panicked"
    prefixes,   \* allowed_prefixes of the walk in progress: <<>> (None) or <<set of prefixes>>
    stack,      \* WalkDir's open directories: for each, the children not yet yielded
    out,        \* discover_files: the entries collected by the walk, in enumeration order
    listing,    \* the sorted Vec<ManifestEntry> returned by the last discover_files
    lines,      \* the lines returned by the last Manifest::serialize
    history,    \* for each allowed_prefixes argument, the outputs its finished runs gave
    before,     \* content of the tracking file when the last operation started
    keys,       \* result of the last read_tracking_file_into_filepaths
    manifest,   \* result of the last deserialize_manifest
    rendered,   \* the lines of serializing that result again
    last,       \* name of the last operation that completed
    dirKind,    \* what is at the path dir: "dir", "file" or "absent"
    relPath,    \* a relative path, as the bytes the operating system gives
    encoded,    \* the base64 text of a path
    decoded     \* what decoding that text gave

vars == <<tree, tfile, pc, prefixes, stack, out, listing, lines, history,
          before, keys, manifest, rendered, last,
          dirKind, relPath, encoded, decoded>>

-----------------------------------------------------------------------------
(* Bytes and UTF-8 *)

Max(a, b) == IF a >= b THEN a ELSE b

RECURSIVE Flatten(_)
Flatten(ss) == IF ss = <<>> THEN <<>> ELSE Head(ss) \o Flatten(Tail(ss))

\* <[u8] as Ord>::cmp, which is also str::cmp, giving Less: byte-wise
\* lexicographic order.  At the first index where the two differ, a has ended
\* or holds the smaller byte.
StrLess(a, b) ==
    \E i \in 1..Len(b) :
        /\ \A j \in 1..(i - 1) : j <= Len(a) /\ a[j] = b[j]
        /\ (i > Len(a) \/ a[i] < b[i])

IsCont(s, i) == i <= Len(s) /\ s[i] >= 128 /\ s[i] <= 191

\* number of bytes of the UTF-8 scalar starting at s[i]; 0 if it is not well formed
Utf8Len(s, i) ==
    LET b == s[i] IN
    IF b < 128 THEN 1
    ELSE IF b >= 194 /\ b <= 223 THEN (IF IsCont(s, i + 1) THEN 2 ELSE 0)
    ELSE IF b >= 224 /\ b <= 239 THEN
        (IF /\ IsCont(s, i + 1) /\ IsCont(s, i + 2)
            /\ (b = 224 => s[i + 1] >= 160)
            /\ (b = 237 => s[i + 1] <= 159)
         THEN 3 ELSE 0)
    ELSE IF b >= 240 /\ b <= 244 THEN
        (IF /\ IsCont(s, i + 1) /\ IsCont(s, i + 2) /\ IsCont(s, i + 3)
            /\ (b = 240 => s[i + 1] >= 144)
            /\ (b = 244 => s[i + 1] <= 143)
         THEN 4 ELSE 0)
    ELSE 0

\* str::from_utf8(s).is_ok(), which Path::to_str and fs::read_to_string
\* require: every byte that is no continuation byte starts a well-formed
\* scalar, and every continuation byte belongs to the scalar started before it
IsUtf8(s) ==
    \A i \in 1..Len(s) :
        IF s[i] >= 128 /\ s[i] <= 191
        THEN \E k \in 1..3 :
                /\ i - k >= 1
                /\ ~(s[i - k] >= 128 /\ s[i - k] <= 191)
                /\ Utf8Len(s, i - k) > k
                /\ \A j \in 1..(k - 1) : s[i - j] >= 128 /\ s[i - j] <= 191
        ELSE Utf8Len(s, i) > 0

\* the scalar value of the n-byte UTF-8 sequence at s[i]
CodePoint(s, i, n) ==
    IF n = 1 THEN s[i]
    ELSE IF n = 2 THEN (s[i] - 192) * 64 + (s[i + 1] - 128)
    ELSE IF n = 3 THEN (s[i] - 224) * 4096 + (s[i + 1] - 128) * 64 + (s[i + 2] - 128)
    ELSE (s[i] - 240) * 262144 + (s[i + 1] - 128) * 4096
         + (s[i + 2] - 128) * 64 + (s[i + 3] - 128)

\* char::encode_utf8
Utf8Encode(cp) ==
    IF cp < 128 THEN <<cp>>
    ELSE IF cp < 2048 THEN <<192 + (cp \div 64), 128 + (cp % 64)>>
    ELSE IF cp < 65536 THEN
        <<224 + (cp \div 4096), 128 + ((cp \div 64) % 64), 128 + (cp % 64)>>
    ELSE <<240 + (cp \div 262144), 128 + ((cp \div 4096) % 64),
           128 + ((cp \div 64) % 64), 128 + (cp % 64)>>

\* unicode_width::UnicodeWidthChar::width(c).unwrap_or(0): display columns of
\* one scalar (controls and combining marks 0, East Asian wide and emoji 2)
CharWidth(cp) ==
    IF cp < 32 \/ (cp >= 127 /\ cp < 160) THEN 0
    ELSE IF cp >= 768 /\ cp <= 879 THEN 0
    ELSE IF \/ (cp >= 4352 /\ cp <= 4447)
            \/ (cp >= 11904 /\ cp <= 42191)
            \/ (cp >= 44032 /\ cp <= 55203)
            \/ (cp >= 63744 /\ cp <= 64255)
            \/ (cp >= 65280 /\ cp <= 65376)
            \/ (cp >= 65504 /\ cp <= 65510)
            \/ (cp >= 127744 /\ cp <= 129791)
            \/ (cp >= 131072 /\ cp <= 262141)
         THEN 2
    ELSE 1

RECURSIVE WidthFrom(_, _)
WidthFrom(s, i) ==
    IF i > Len(s) THEN 0
    ELSE LET n == Utf8Len(s, i) IN
         CharWidth(CodePoint(s, i, n)) + WidthFrom(s, i + n)

\* get_str_visual_width: UnicodeWidthStr::width of a (valid UTF-8) string
get_str_visual_width(s) == WidthFrom(s, 1)

Spaces(n) == [i \in 1..n |-> 32]

\* The result of a call that can fail is [ok, val, pos]; for a parse, pos is
\* the index of the first byte after what was read.
Fail == [ok |-> FALSE, val |-> <<>>, pos |-> 0]
Ok(v, p) == [ok |-> TRUE, val |-> v, pos |-> p]

-----------------------------------------------------------------------------
(* base64::engine::general_purpose::STANDARD_NO_PAD *)

B64Alphabet ==
    <<65, 66, 67, 68, 69, 70, 71, 72, 73, 74, 75, 76, 77, 78, 79, 80, 81, 82, 83,
      84, 85, 86, 87, 88, 89, 90,
      97, 98, 99, 100, 101, 102, 103, 104, 105, 106, 107, 108, 109, 110, 111, 112,
      113, 114, 115, 116, 117, 118, 119, 120, 121, 122,
      48, 49, 50, 51, 52, 53, 54, 55, 56, 57, 43, 47>>

B64Char(v) == B64Alphabet[v + 1]

RECURSIVE B64EncodeFrom(_, _)
B64EncodeFrom(s, i) ==
    LET rest == Len(s) - i + 1 IN
    IF rest <= 0 THEN <<>>
    ELSE IF rest = 1 THEN
        <<B64Char(s[i] \div 4), B64Char((s[i] % 4) * 16)>>
    ELSE IF rest = 2 THEN
        <<B64Char(s[i] \div 4),
          B64Char((s[i] % 4) * 16 + (s[i + 1] \div 16)),
          B64Char((s[i + 1] % 16) * 4)>>
    ELSE
        <<B64Char(s[i] \div 4),
          B64Char((s[i] % 4) * 16 + (s[i + 1] \div 16)),
          B64Char((s[i + 1] % 16) * 4 + (s[i + 2] \div 64)),
          B64Char(s[i + 2] % 64)>> \o B64EncodeFrom(s, i + 3)

\* an encoder that writes whole groups of three bytes only
B64EncodeWholeGroups(s) == B64EncodeFrom(SubSeq(s, 1, Len(s) - (Len(s) % 3)), 1)

\* STANDARD_NO_PAD.encode(bytes)
B64Encode(s) == B64EncodeFrom(s, 1)

\* the six bits a character of the alphabet stands for, -1 for any other byte
B64Val(c) ==
    IF \E v \in 0..63 : B64Alphabet[v + 1] = c
    THEN CHOOSE v \in 0..63 : B64Alphabet[v + 1] = c
    ELSE -1

RECURSIVE B64DecodeFrom(_, _)
B64DecodeFrom(t, i) ==
    LET rest == Len(t) - i + 1 IN
    IF rest <= 1 THEN <<>>
    ELSE IF rest = 2 THEN
        <<B64Val(t[i]) * 4 + (B64Val(t[i + 1]) \div 16)>>
    ELSE IF rest = 3 THEN
        <<B64Val(t[i]) * 4 + (B64Val(t[i + 1]) \div 16),
          (B64Val(t[i + 1]) % 16) * 16 + (B64Val(t[i + 2]) \div 4)>>
    ELSE
        <<B64Val(t[i]) * 4 + (B64Val(t[i + 1]) \div 16),
          (B64Val(t[i + 1]) % 16) * 16 + (B64Val(t[i + 2]) \div 4),
          (B64Val(t[i + 2]) % 4) * 64 + B64Val(t[i + 3])>>
        \o B64DecodeFrom(t, i + 4)

\* STANDARD_NO_PAD.decode(text): the bytes; not ok for text the engine refuses
\* (a byte outside the alphabet, padding included; a lone last character; set
\* bits left over in the last character)
B64Decode(t) ==
    IF /\ \A i \in 1..Len(t) : B64Val(t[i]) >= 0
       /\ (Len(t) % 4) # 1
       /\ (Len(t) % 4) = 2 => (B64Val(t[Len(t)]) % 16) = 0
       /\ (Len(t) % 4) = 3 => (B64Val(t[Len(t)]) % 4) = 0
    THEN Ok(B64DecodeFrom(t, 1), 0)
    ELSE Fail

-----------------------------------------------------------------------------
(* serde_json: writing *)

HexDigit(v) == IF v < 10 THEN 48 + v ELSE 87 + v

\* an escape table that leaves the backslash as it is
EscapeByteKeepingBackslash(b) ==
    IF b = 34 THEN <<92, 34>>
    ELSE IF b = 8 THEN <<92, 98>>
    ELSE IF b = 12 THEN <<92, 102>>
    ELSE IF b = 10 THEN <<92, 110>>
    ELSE IF b = 13 THEN <<92, 114>>
    ELSE IF b = 9 THEN <<92, 116>>
    ELSE IF b < 32 THEN <<92, 117, 48, 48, HexDigit(b \div 16), HexDigit(b % 16)>>
    ELSE <<b>>

\* serde_json's ESCAPE table (format_escaped_str_contents): what one byte of a
\* string becomes inside a JSON string literal
EscapeByte(b) ==
    IF b = 34 THEN <<92, 34>>                \* "  ->  \"
    ELSE IF b = 92 THEN <<92, 92>>           \* \  ->  \\
    ELSE IF b = 8 THEN <<92, 98>>            \* \b
    ELSE IF b = 12 THEN <<92, 102>>          \* \f
    ELSE IF b = 10 THEN <<92, 110>>          \* \n
    ELSE IF b = 13 THEN <<92, 114>>          \* \r
    ELSE IF b = 9 THEN <<92, 116>>           \* \t
    ELSE IF b < 32 THEN <<92, 117, 48, 48, HexDigit(b \div 16), HexDigit(b % 16)>>
    ELSE <<b>>

\* serde_json::to_string(&str): the JSON string literal of a UTF-8 string
JsonString(s) == <<34>> \o Flatten([i \in 1..Len(s) |-> EscapeByte(s[i])]) \o <<34>>

RECURSIVE DecDigits(_)
DecDigits(n) == IF n < 10 THEN <<48 + n>> ELSE DecDigits(n \div 10) \o <<48 + (n % 10)>>

\* serde_json::to_string of an integer (itoa)
JsonInt(n) == IF n < 0 THEN <<45>> \o DecDigits(0 - n) ELSE DecDigits(n)

-----------------------------------------------------------------------------
(* serde_json: reading *)

IsWs(b) == b = 32 \/ b = 10 \/ b = 9 \/ b = 13

\* Deserializer::parse_whitespace: index of the first non-whitespace byte at or after i
RECURSIVE SkipWs(_, _)
SkipWs(s, i) == IF i <= Len(s) /\ IsWs(s[i]) THEN SkipWs(s, i + 1) ELSE i

IsDigit(b) == b >= 48 /\ b <= 57

HexVal(b) == IF IsDigit(b) THEN b - 48 ELSE IF b >= 97 THEN b - 87 ELSE b - 55

\* the byte a one-letter escape stands for; 0 - 1 when the letter is no escape
Unescape(b) ==
    IF b = 34 \/ b = 92 \/ b = 47 THEN b
    ELSE IF b = 98 THEN 8
    ELSE IF b = 102 THEN 12
    ELSE IF b = 110 THEN 10
    ELSE IF b = 114 THEN 13
    ELSE IF b = 116 THEN 9
    ELSE 0 - 1

\* StrRead::parse_str after the opening quote: up to the closing quote, escapes
\* decoded; a raw control byte, an unknown escape, a lone surrogate or the end
\* of input is an error.  (A \uD8xx\uDCxx surrogate pair, which serde_json
\* joins, is not modelled: no input of the model holds one.)
RECURSIVE StrBody(_, _, _)
StrBody(s, i, acc) ==
    IF i > Len(s) THEN Fail
    ELSE IF s[i] = 34 THEN Ok(acc, i + 1)
    ELSE IF s[i] < 32 THEN Fail
    ELSE IF s[i] = 92 THEN
        IF i + 1 > Len(s) THEN Fail
        ELSE IF s[i + 1] = 117 THEN
            IF /\ i + 5 <= Len(s)
               /\ \A k \in 2..5 :
                      \/ IsDigit(s[i + k])
                      \/ (s[i + k] >= 97 /\ s[i + k] <= 102)
                      \/ (s[i + k] >= 65 /\ s[i + k] <= 70)
            THEN LET cp == HexVal(s[i + 2]) * 4096 + HexVal(s[i + 3]) * 256
                           + HexVal(s[i + 4]) * 16 + HexVal(s[i + 5]) IN
                 IF cp >= 55296 /\ cp <= 57343 THEN Fail
                 ELSE StrBody(s, i + 6, acc \o Utf8Encode(cp))
            ELSE Fail
        ELSE IF Unescape(s[i + 1]) < 0 THEN Fail
        ELSE StrBody(s, i + 2, Append(acc, Unescape(s[i + 1])))
    ELSE StrBody(s, i + 1, Append(acc, s[i]))

\* String::deserialize(&mut de): optional whitespace, then a JSON string literal
ParseString(s, i) ==
    LET j == SkipWs(s, i) IN
    IF j <= Len(s) /\ s[j] = 34 THEN StrBody(s, j + 1, <<>>) ELSE Fail

RECURSIVE DigitsEnd(_, _)
DigitsEnd(s, i) == IF i <= Len(s) /\ IsDigit(s[i]) THEN DigitsEnd(s, i + 1) ELSE i

RECURSIVE DecValue(_, _, _)
DecValue(s, i, j) ==
    IF j < i THEN 0 ELSE DecValue(s, i, j - 1) * 10 + (s[j] - 48)

\* the integer with digits s[d..e-1], e being the first index behind them: no
\* digit, a leading zero, or a fraction or exponent behind (a float, which an
\* integer field rejects) is an error, and so is a minus for an unsigned type
IntAt(s, neg, d, e, signed) ==
    IF neg /\ ~signed THEN Fail
    ELSE IF e = d THEN Fail
    ELSE IF s[d] = 48 /\ e > d + 1 THEN Fail
    ELSE IF e <= Len(s) /\ (s[e] = 46 \/ s[e] = 101 \/ s[e] = 69) THEN Fail
    ELSE Ok((IF neg THEN 0 - 1 ELSE 1) * DecValue(s, d, e - 1), e)

IntFrom(s, j, signed) ==
    IF j <= Len(s) /\ s[j] = 45
    THEN IntAt(s, TRUE, j + 1, DigitsEnd(s, j + 1), signed)
    ELSE IntAt(s, FALSE, j, DigitsEnd(s, j), signed)

\* u64, u32 (signed = FALSE) or i128 (signed = TRUE) ::deserialize(&mut de):
\* optional whitespace, then an integer
ParseInt(s, i, signed) == IntFrom(s, SkipWs(s, i), signed)

\* does s hold the bytes of lit at index i?
HasAt(s, i, lit) ==
    /\ i + Len(lit) - 1 <= Len(s)
    /\ \A k \in 1..Len(lit) : s[i + k - 1] = lit[k]

OptionAt(s, j, r) ==
    IF j <= Len(s) /\ s[j] = 110
    THEN (IF HasAt(s, j, <<110, 117, 108, 108>>) THEN Ok(<<>>, j + 4) ELSE Fail)
    ELSE IF r.ok THEN Ok(<<r.val>>, r.pos) ELSE Fail

\* Option<T>::deserialize: null is None, anything else is Some(T); r is what
\* T::deserialize gives at i
ParseOption(s, i, r) == OptionAt(s, SkipWs(s, i), r)

-----------------------------------------------------------------------------
(* NodeType, FileMeta, ManifestEntry *)

NodeTypes == {"file", "dir", "symlink", "other"}

\* the variants under the names they are declared with: File, Dir, Symlink, Other
TyNameAsDeclared(ty) ==
    IF ty = "file" THEN <<70, 105, 108, 101>>
    ELSE IF ty = "dir" THEN <<68, 105, 114>>
    ELSE IF ty = "symlink" THEN <<83, 121, 109, 108, 105, 110, 107>>
    ELSE <<79, 116, 104, 101, 114>>

\* #[serde(rename_all = "snake_case")] on NodeType: the variant's name in JSON
TyName(ty) ==
    IF ty = "file" THEN <<102, 105, 108, 101>>
    ELSE IF ty = "dir" THEN <<100, 105, 114>>
    ELSE IF ty = "symlink" THEN <<115, 121, 109, 108, 105, 110, 107>>
    ELSE <<111, 116, 104, 101, 114>>

\* the names of FileMeta's fields, in declaration order
FieldNames == <<"encoded_path_b64", "ty", "size", "mtime_ns", "mode", "link_target">>

FieldKey(f) ==
    IF f = "encoded_path_b64"
    THEN <<101, 110, 99, 111, 100, 101, 100, 95, 112, 97, 116, 104, 95, 98, 54, 52>>
    ELSE IF f = "ty" THEN <<116, 121>>
    ELSE IF f = "size" THEN <<115, 105, 122, 101>>
    ELSE IF f = "mtime_ns" THEN <<109, 116, 105, 109, 101, 95, 110, 115>>
    ELSE IF f = "mode" THEN <<109, 111, 100, 101>>
    ELSE <<108, 105, 110, 107, 95, 116, 97, 114, 103, 101, 116>>

\* the text of one field of the JSON object: "name":value
Member(f, value) == JsonString(FieldKey(f)) \o <<58>> \o value

\* a JSON object of the given members (at least one)
JsonObject(members) ==
    <<123>> \o members[1]
    \o Flatten([i \in 1..(Len(members) - 1) |-> <<44>> \o members[i + 1]])
    \o <<125>>

\* #[derive(Serialize)] for FileMeta with serde_json: the fields in declaration
\* order, an Option that is None skipped (skip_serializing_if); a link_target
\* that is not UTF-8 cannot be written (Path's Serialize fails)
SerializeFileMeta(m) ==
    IF m.link_target # <<>> /\ ~IsUtf8(m.link_target[1]) THEN Fail
    ELSE Ok(JsonObject(
            <<Member("encoded_path_b64", JsonString(m.encoded_path_b64)),
              Member("ty", JsonString(TyName(m.ty)))>>
            \o (IF m.size = <<>> THEN <<>> ELSE <<Member("size", JsonInt(m.size[1]))>>)
            \o <<Member("mtime_ns", JsonInt(m.mtime_ns))>>
            \o (IF m.mode = <<>> THEN <<>> ELSE <<Member("mode", JsonInt(m.mode[1]))>>)
            \o (IF m.link_target = <<>> THEN <<>>
                ELSE <<Member("link_target", JsonString(m.link_target[1]))>>)), 0)

\* serde's field identifier: the field a key names, "" for any other key
FieldOf(key) ==
    IF \E i \in 1..Len(FieldNames) : FieldKey(FieldNames[i]) = key
    THEN FieldNames[CHOOSE i \in 1..Len(FieldNames) : FieldKey(FieldNames[i]) = key]
    ELSE ""

TyFrom(r) ==
    IF r.ok /\ \E ty \in NodeTypes : TyName(ty) = r.val
    THEN Ok(CHOOSE ty \in NodeTypes : TyName(ty) = r.val, r.pos)
    ELSE Fail

\* IgnoredAny at a value: a string, an integer or one of true, false, null
\* (nested arrays and objects are not modelled: no input of the model holds
\* one)
SkipValueAt(s, j) ==
    IF j > Len(s) THEN Fail
    ELSE IF s[j] = 34 THEN ParseString(s, j)
    ELSE IF HasAt(s, j, <<110, 117, 108, 108>>) THEN Ok(<<>>, j + 4)
    ELSE IF HasAt(s, j, <<116, 114, 117, 101>>) THEN Ok(<<>>, j + 4)
    ELSE IF HasAt(s, j, <<102, 97, 108, 115, 101>>) THEN Ok(<<>>, j + 5)
    ELSE ParseInt(s, j, TRUE)

\* the value of field f, read at index i; IgnoredAny for the value of an
\* unknown key
ParseField(f, s, i) ==
    IF f = "encoded_path_b64" THEN ParseString(s, i)
    ELSE IF f = "ty" THEN TyFrom(ParseString(s, i))
    ELSE IF f = "size" \/ f = "mode" THEN ParseOption(s, i, ParseInt(s, i, FALSE))
    ELSE IF f = "mtime_ns" THEN ParseInt(s, i, TRUE)
    ELSE IF f = "link_target" THEN ParseOption(s, i, ParseString(s, i))
    ELSE SkipValueAt(s, SkipWs(s, i))

NoFields == [f \in {FieldNames[i] : i \in 1..Len(FieldNames)} |-> <<>>]

\* the closing brace is read: the FileMeta, unless encoded_path_b64, ty or
\* mtime_ns is missing; a missing Option field is None
FinishMembers(got, p) ==
    IF got["encoded_path_b64"] = <<>> \/ got["ty"] = <<>> \/ got["mtime_ns"] = <<>>
    THEN Fail
    ELSE Ok([encoded_path_b64 |-> got["encoded_path_b64"][1],
             ty |-> got["ty"][1],
             size |-> IF got["size"] = <<>> THEN <<>> ELSE got["size"][1],
             mtime_ns |-> got["mtime_ns"][1],
             mode |-> IF got["mode"] = <<>> THEN <<>> ELSE got["mode"][1],
             link_target |-> IF got["link_target"] = <<>> THEN <<>>
                             ELSE got["link_target"][1]],
            p)

\* the derived visit_map of FileMeta over serde_json's MapAccess, after the
\* opening brace: members separated by commas up to the closing brace; a key
\* seen twice or a bad value is an error.  got[f] is <<>> until f is read.
RECURSIVE ParseMembers(_, _, _, _)

\* v is the value read for field f
AfterValue(s, f, v, got) ==
    IF ~v.ok THEN Fail
    ELSE IF f # "" /\ got[f] # <<>> THEN Fail
    ELSE ParseMembers(s, v.pos, FALSE,
                      IF f = "" THEN got ELSE [got EXCEPT ![f] = <<v.val>>])

\* c is the index of the first byte that is no whitespace behind the key of f
AfterColon(s, f, c, got) ==
    IF c > Len(s) \/ s[c] # 58 THEN Fail
    ELSE AfterValue(s, f, ParseField(f, s, c + 1), got)

AfterKey(s, key, got) ==
    IF ~key.ok THEN Fail
    ELSE AfterColon(s, FieldOf(key.val), SkipWs(s, key.pos), got)

KeyAt(s, k, got) ==
    IF k > Len(s) \/ s[k] # 34 THEN Fail ELSE AfterKey(s, ParseString(s, k), got)

MemberAt(s, j, first, got) ==
    IF j > Len(s) THEN Fail
    ELSE IF s[j] = 125 THEN FinishMembers(got, j + 1)
    ELSE IF ~first /\ s[j] # 44 THEN Fail
    ELSE KeyAt(s, IF first THEN j ELSE SkipWs(s, j + 1), got)

ParseMembers(s, i, first, got) == MemberAt(s, SkipWs(s, i), first, got)

\* the derived visit_seq of FileMeta over serde_json's SeqAccess, after the
\* opening bracket: the values of the six fields in declaration order,
\* separated by commas, then the closing bracket; fewer or more elements are
\* an error.  n is the number of the field read next.
RECURSIVE ParseElements(_, _, _, _)

\* v is the value read for field n
AfterElement(s, n, v, got) ==
    IF ~v.ok THEN Fail
    ELSE IF SkipWs(s, v.pos) > Len(s) THEN Fail
    ELSE IF n = Len(FieldNames) THEN
        IF s[SkipWs(s, v.pos)] = 93
        THEN FinishMembers([got EXCEPT ![FieldNames[n]] = <<v.val>>],
                           SkipWs(s, v.pos) + 1)
        ELSE Fail
    ELSE IF s[SkipWs(s, v.pos)] = 44
    THEN ParseElements(s, n + 1, SkipWs(s, v.pos) + 1,
                       [got EXCEPT ![FieldNames[n]] = <<v.val>>])
    ELSE Fail

ParseElements(s, n, i, got) == AfterElement(s, n, ParseField(FieldNames[n], s, i), got)

\* serde_json's deserialize_struct: a brace opens the map form of the struct,
\* a bracket its sequence form, anything else is an error
ObjectAt(s, j) ==
    IF j > Len(s) THEN Fail
    ELSE IF s[j] = 123 THEN ParseMembers(s, j + 1, TRUE, NoFields)
    ELSE IF s[j] = 91 THEN ParseElements(s, 1, j + 1, NoFields)
    ELSE Fail

PairOf(e, r) ==
    IF ~IsUtf8(e.path_key) \/ ~r.ok THEN Fail
    ELSE Ok(<<JsonString(e.path_key), r.val>>, 0)

\* ManifestEntry::serialize_entry: (key_json, record_json); not ok where
\* serde_json::to_string fails (a path_key or link_target that is not UTF-8)
\* and the code panics
serialize_entry(e) == PairOf(e, SerializeFileMeta(e.record))

EntryOf(line, k, r) ==
    IF ~r.ok THEN Fail
    ELSE IF SkipWs(line, r.pos) <= Len(line) THEN Fail
    ELSE Ok([path_key |-> k.val, record |-> r.val], r.pos)

RecordAfter(line, k) ==
    IF ~k.ok THEN Fail ELSE EntryOf(line, k, ObjectAt(line, SkipWs(line, k.pos)))

\* ManifestEntry::deserialize_entry: the leading JSON string, the record, then
\* nothing but whitespace; not ok where the code panics
deserialize_entry(line) == RecordAfter(line, ParseString(line, 1))

\* a key reader that takes the key of a whole well-formed line only
deserialize_path_key_strict(line) ==
    IF deserialize_entry(line).ok THEN ParseString(line, 1) ELSE Fail

\* ManifestEntry::deserialize_path_key: the first value of a stream of JSON
\* strings; whatever follows the closing quote is never looked at
deserialize_path_key(line) ==
    IF SkipWs(line, 1) > Len(line) THEN Fail ELSE ParseString(line, 1)

-----------------------------------------------------------------------------
(* std::path: components and the order of paths *)

\* the pieces of p between slashes, empty pieces included, from index i on
RECURSIVE SplitFrom(_, _, _)
SplitFrom(p, i, cur) ==
    IF i > Len(p) THEN <<cur>>
    ELSE IF p[i] = 47 THEN <<cur>> \o SplitFrom(p, i + 1, <<>>)
    ELSE SplitFrom(p, i + 1, Append(cur, p[i]))

\* one std::path::Component as a byte string that sorts as the derived Ord of
\* the enum does: the variant's rank (RootDir 1, CurDir 2, ParentDir 3,
\* Normal 4), then for Normal the bytes of the name
RECURSIVE ToComponents(_, _, _)
ToComponents(parts, i, rooted) ==
    IF i > Len(parts) THEN <<>>
    ELSE LET part == parts[i]
             rest == ToComponents(parts, i + 1, rooted)
         IN  IF part = <<>> THEN rest
             ELSE IF part = <<46>> THEN (IF i = 1 /\ ~rooted THEN <<<<2>>>> \o rest ELSE rest)
             ELSE IF part = <<46, 46>> THEN <<<<3>>>> \o rest
             ELSE <<<<4>> \o part>> \o rest

\* Path::components() on Unix: a leading slash is RootDir, empty pieces (doubled
\* or trailing slashes) and inner "." pieces vanish
Components(p) ==
    LET rooted == p # <<>> /\ p[1] = 47 IN
    (IF rooted THEN <<<<1>>>> ELSE <<>>) \o ToComponents(SplitFrom(p, 1, <<>>), 1, rooted)

RECURSIVE CompsLessFrom(_, _, _)
CompsLessFrom(a, b, i) ==
    IF i > Len(a) THEN i <= Len(b)
    ELSE IF i > Len(b) THEN FALSE
    ELSE IF a[i] # b[i] THEN StrLess(a[i], b[i])
    ELSE CompsLessFrom(a, b, i + 1)

\* <Path as Ord>::cmp(a, b) == Less: the components compared in turn
PathLess(a, b) == CompsLessFrom(Components(a), Components(b), 1)

\* Path::starts_with(base): base's components are the first components of p
PathStartsWith(p, base) ==
    /\ Len(Components(base)) <= Len(Components(p))
    /\ \A i \in 1..Len(Components(base)) : Components(p)[i] = Components(base)[i]

\* PathBuf::join(""): a separator is added unless the path is empty or ends in one
JoinEmpty(p) == IF p = <<>> \/ p[Len(p)] = 47 THEN p ELSE Append(p, 47)

-----------------------------------------------------------------------------
(* Manifest *)

RECURSIVE MaxOf(_, _)
MaxOf(ws, i) == IF i > Len(ws) THEN 0 ELSE Max(ws[i], MaxOf(ws, i + 1))

\* pad_to in Manifest::serialize: the widest key_json (0 when there is none) + 2
PadTo(pairs) == MaxOf([i \in 1..Len(pairs) |-> get_str_visual_width(pairs[i][1])], 1) + 2

\* usize::saturating_sub
SaturatingSub(a, b) == IF a >= b THEN a - b ELSE 0

\* a line padded by the byte length of its key_json
RenderLineByBytes(pair, pad_to) ==
    pair[1] \o Spaces(SaturatingSub(pad_to, Len(pair[1]))) \o pair[2]

\* one rendered line of Manifest::serialize: [k, padding, r].concat()
RenderLine(pair, pad_to) ==
    pair[1] \o Spaces(SaturatingSub(pad_to, get_str_visual_width(pair[1]))) \o pair[2]

\* x put into a sequence of strings that is in byte order
RECURSIVE InsertStr(_, _)
InsertStr(x, ss) ==
    IF ss = <<>> THEN <<x>>
    ELSE IF StrLess(x, ss[Len(ss)])
    THEN Append(InsertStr(x, SubSeq(ss, 1, Len(ss) - 1)), ss[Len(ss)])
    ELSE Append(ss, x)

\* the strings in ascending byte order (<str as Ord>::cmp)
RECURSIVE SortStr(_)
SortStr(ss) ==
    IF ss = <<>> THEN <<>>
    ELSE InsertStr(ss[Len(ss)], SortStr(SubSeq(ss, 1, Len(ss) - 1)))

\* the lines left in the order of the manifest's entries
LinesInEntryOrder(ls) == ls

\* Vec<String>::par_sort_unstable(): equal strings are the same bytes, so the
\* sorted sequence is unique
SortLines(ls) == SortStr(ls)

RenderAll(pairs, pad_to) ==
    Ok(SortLines([i \in 1..Len(pairs) |-> RenderLine(pairs[i], pad_to)]), 0)

SerializePairs(rs) ==
    IF \E i \in 1..Len(rs) : ~rs[i].ok THEN Fail
    ELSE RenderAll([i \in 1..Len(rs) |-> rs[i].val],
                   PadTo([i \in 1..Len(rs) |-> rs[i].val]))

\* Manifest::serialize: every entry to (key_json, record_json), the lines padded
\* to one record column, then the lines sorted as text; not ok where
\* serialize_entry panics
serialize(m) == SerializePairs([i \in 1..Len(m) |-> serialize_entry(m[i])])

\* is the sequence of entries in non-descending Path order of path_key?
SortedByPath(es) ==
    \A i \in 1..(Len(es) - 1) : ~PathLess(es[i + 1].path_key, es[i].path_key)

\* the entries left in the order of their lines
sortKeepingOrder(es) == {es}

\* Manifest::sort: par_sort_unstable_by on path_key.cmp: every arrangement of
\* the entries that is in order (entries whose keys compare equal may end in
\* any order)
sort(es) ==
    {r \in {[i \in 1..Len(es) |-> es[q[i]]] : q \in Permutations(1..Len(es))} :
        SortedByPath(r)}

\* the elements of a set of numbers in ascending order
Ascending(S) ==
    [k \in 1..Cardinality(S) |->
        CHOOSE x \in S : Cardinality({y \in S : y < x}) = k - 1]

\* one trailing carriage return stripped
StripCr(l) == IF l # <<>> /\ l[Len(l)] = 13 THEN SubSeq(l, 1, Len(l) - 1) ELSE l

\* the lines of c, pos being the indices of its line feeds in ascending order
LinesAt(c, pos) ==
    [k \in 1..Len(pos) |->
        StripCr(SubSeq(c, IF k = 1 THEN 1 ELSE pos[k - 1] + 1, pos[k] - 1))]
    \o (IF pos = <<>> THEN (IF c = <<>> THEN <<>> ELSE <<StripCr(c)>>)
        ELSE IF pos[Len(pos)] < Len(c)
        THEN <<StripCr(SubSeq(c, pos[Len(pos)] + 1, Len(c)))>>
        ELSE <<>>)

\* str::lines / par_lines: the pieces between line feeds, what follows the last
\* line feed being a line only if it is not empty, one trailing carriage return
\* stripped from each
Lines(c) == LinesAt(c, Ascending({i \in 1..Len(c) : c[i] = 10}))

EntriesOf(rs) ==
    IF \E i \in 1..Len(rs) : ~rs[i].ok THEN Fail
    ELSE Ok([i \in 1..Len(rs) |-> rs[i].val], 0)

NonEmpty(l) == l # <<>>

\* Manifest::deserialize_manifest before the sort: the non-empty lines, each
\* parsed by deserialize_entry; not ok where a line panics
ParseLines(content) ==
    EntriesOf([i \in 1..Len(SelectSeq(Lines(content), NonEmpty)) |->
                  deserialize_entry(SelectSeq(Lines(content), NonEmpty)[i])])

\* Manifest::deserialize_manifest: the results the call may return (none where
\* it panics)
deserialize_manifest(content) ==
    IF ParseLines(content).ok THEN sort(ParseLines(content).val) ELSE {}

\* writeln!(w, "{}", d) for every line: the text written to the file
FileText(ls) == Flatten([i \in 1..Len(ls) |-> Append(ls[i], 10)])

-----------------------------------------------------------------------------
(* The directory that is tracked.  A node is what symlink_metadata and
   read_link tell of it: ty, len (st_size), mtime (ns since the epoch,
   negative before it), mode (st_mode), target (of a symlink). *)

\* TRACKING_FILENAME = "filesync_tracking.txt"
TRACKING_FILENAME ==
    <<102, 105, 108, 101, 115, 121, 110, 99, 95, 116, 114, 97, 99, 107, 105, 110,
      103, 46, 116, 120, 116>>

\* the absolute path of the tracked directory: /r
Root == <<47, 114>>

File(len, mtime) ==
    [ty |-> "file", len |-> len, mtime |-> mtime, mode |-> 33188, target |-> <<>>,
     modified |-> TRUE]
Dir(mtime) ==
    [ty |-> "dir", len |-> 4096, mtime |-> mtime, mode |-> 16877, target |-> <<>>,
     modified |-> TRUE]
Symlink(target, mtime) ==
    [ty |-> "symlink", len |-> Len(target), mtime |-> mtime, mode |-> 41471,
     target |-> target, modified |-> TRUE]

\* a node that is no file, directory or symlink (a FIFO)
Special(mtime) ==
    [ty |-> "other", len |-> 0, mtime |-> mtime, mode |-> 4516, target |-> <<>>,
     modified |-> TRUE]

\* a relative path from its components
RECURSIVE Rel(_)
Rel(names) ==
    IF Len(names) = 1 THEN names[1] ELSE names[1] \o <<47>> \o Rel(Tail(names))

\* the file names of the trees below, as bytes
Name ==
    [sub |-> <<115, 117, 98>>,                 \* sub
     a |-> <<97>>,                             \* a
     b |-> <<98>>,                             \* b
     x |-> <<120>>,                            \* x
     y |-> <<121>>,                            \* y
     f1 |-> <<102, 49>>,                       \* f1
     f2 |-> <<102, 50>>,                       \* f2
     a_txt |-> <<97, 46, 116, 120, 116>>,      \* a.txt
     b_txt |-> <<98, 46, 116, 120, 116>>,      \* b.txt
     link |-> <<108, 105, 110, 107>>,          \* link
     a_b |-> <<97, 45, 98>>,                   \* a-b
     wide |-> <<227, 131, 143>>,               \* U+30CF, a wide glyph
     d |-> <<100>>,                            \* d
     e |-> <<101>>,                            \* e
     hidden |-> <<46, 104>>,                   \* .h
     l |-> <<108>>]                            \* l

\* an empty directory
TreeEmpty == [p \in {} |-> File(0, 0)]

\* f1/a.txt (empty), f1/b.txt ("hello world"), f2/link -> ../f1/b.txt
TreeScenario ==
    (Rel(<<Name.f1>>) :> Dir(1)) @@ (Rel(<<Name.f1, Name.a_txt>>) :> File(0, 2))
    @@ (Rel(<<Name.f1, Name.b_txt>>) :> File(11, 3)) @@ (Rel(<<Name.f2>>) :> Dir(4))
    @@ (Rel(<<Name.f2, Name.link>>) :> Symlink(<<46, 46, 47>> \o Rel(<<Name.f1, Name.b_txt>>), 5))

\* a/b beside a-b, and a wide-glyph name
TreeOrder ==
    (Rel(<<Name.a>>) :> Dir(1)) @@ (Rel(<<Name.a, Name.b>>) :> File(1, 0 - 2))
    @@ (Rel(<<Name.a_b>>) :> File(2, 3)) @@ (Rel(<<Name.wide>>) :> File(7, 4))

\* a directory holding a file, and symlinks to that directory, to itself, to
\* a path outside the root and to nothing
TreeLinks ==
    (Rel(<<Name.d>>) :> Dir(1)) @@ (Rel(<<Name.d, Name.x>>) :> File(3, 2))
    @@ (Rel(<<Name.l>>) :> Symlink(Name.d, 3))
    @@ (Rel(<<Name.link>>) :> Symlink(Name.link, 4))
    @@ (Rel(<<Name.a>>) :> Symlink(<<46, 46, 47>> \o Name.e, 5))
    @@ (Rel(<<Name.b>>) :> Symlink(Name.y, 6))

\* the trees of the model: the four above, the tree sub/a/x and sub/b/y, and
\* a nested directory holding a file with the reserved name, an empty
\* directory, a hidden file and a symlink to a directory
Trees ==
    {TreeEmpty, TreeScenario, TreeOrder, TreeLinks,
     (Rel(<<Name.sub>>) :> Dir(1)) @@ (Rel(<<Name.sub, Name.a>>) :> Dir(2))
     @@ (Rel(<<Name.sub, Name.a, Name.x>>) :> File(3, 3)) @@ (Rel(<<Name.sub, Name.b>>) :> Dir(4))
     @@ (Rel(<<Name.sub, Name.b, Name.y>>) :> File(5, 5)),
     (Rel(<<Name.d>>) :> Dir(1)) @@ (Rel(<<Name.d, TRACKING_FILENAME>>) :> File(9, 2))
     @@ (Rel(<<Name.e>>) :> Dir(3)) @@ (Rel(<<Name.hidden>>) :> File(6, 4))
     @@ (Rel(<<Name.l>>) :> Symlink(Name.d, 5))}

\* the allowed_prefixes arguments of the model: None, Some(["sub/a"]), Some(["f1"])
PrefixArgs == {<<>>, <<{Rel(<<Name.sub, Name.a>>)}>>, <<{Name.f1}>>}

\* our_string of test_write_tracking_file
OurString ==
    <<65, 65, 65, 65, 65, 65, 65, 65, 65, 65, 65, 65, 65, 65, 65, 65, 65, 65, 65,
      65, 65, 65, 65, 66, 66, 66, 66, 66, 66, 66, 66, 66, 66, 66, 66, 66, 66, 66,
      10>>

NoFile == [kind |-> "none", content |-> <<>>]
RegularFile(c) == [kind |-> "file", content |-> c]

\* the path before the last slash; empty for a top-level name
RECURSIVE Parent(_)
Parent(p) ==
    IF p = <<>> THEN <<>>
    ELSE IF p[Len(p)] = 47 THEN SubSeq(p, 1, Len(p) - 1)
    ELSE Parent(SubSeq(p, 1, Len(p) - 1))

\* the directory that opening dir opens: dir itself, or, where dir is a
\* symlink at the top of the tree whose target names a directory of the tree,
\* that directory.  (Links among deeper directories and targets with dot
\* components are not followed: no tree of the model has a directory behind
\* one.)
Opened(t, dir) ==
    IF /\ dir \in DOMAIN t
       /\ t[dir].ty = "symlink"
       /\ Parent(dir) = <<>>
       /\ t[dir].target \in DOMAIN t
       /\ t[t[dir].target].ty = "dir"
    THEN t[dir].target
    ELSE dir

\* does rel lead through the symlink at q to a directory?
Through(t, rel, q) ==
    /\ Opened(t, q) # q
    /\ Len(rel) > Len(q)
    /\ SubSeq(rel, 1, Len(q) + 1) = Append(q, 47)

\* the path of the node the operating system reaches for rel (the last
\* component is not followed): rel itself for a node of the tree, and where
\* rel leads through a symlink, the path with the link replaced by its target
Resolve(t, rel) ==
    IF rel \in DOMAIN t THEN rel
    ELSE IF \E q \in DOMAIN t : Through(t, rel, q)
    THEN Opened(t, CHOOSE q \in DOMAIN t : Through(t, rel, q))
         \o SubSeq(rel, Len(CHOOSE q \in DOMAIN t : Through(t, rel, q)) + 1, Len(rel))
    ELSE rel

\* what read_dir yields for the directory that opening dir opens, as relative
\* paths that start with dir; the tracking file, when there is one, is an
\* entry of the root
Children(t, tf, dir) ==
    {dir \o SubSeq(p, Len(Opened(t, dir)) + 1, Len(p)) :
        p \in {n \in DOMAIN t : Parent(n) = Opened(t, dir)}}
    \cup (IF dir = <<>> /\ tf.kind # "none" THEN {TRACKING_FILENAME} ELSE {})

\* mtime_ns(md): nanoseconds since the epoch, negated duration before it; the
\* epoch itself where md.modified() is an Err (unwrap_or(UNIX_EPOCH))
mtime_ns(md) ==
    IF ~md.modified THEN 0
    ELSE IF md.mtime >= 0 THEN md.mtime ELSE 0 - (0 - md.mtime)

\* fs::symlink_metadata(root/rel) and fs::read_link for what is there
Metadata(t, tf, rel) ==
    IF Resolve(t, rel) \in DOMAIN t THEN t[Resolve(t, rel)]
    ELSE IF tf.kind = "file" THEN File(Len(tf.content), 9)
    ELSE IF tf.kind = "dir" THEN Dir(9)
    ELSE IF tf.kind = "symlink" THEN Symlink(Name.a, 9)
    ELSE Special(9)

\* an entry that never records a link target
EntryForNoTarget(rel, md) ==
    [path_key |-> IF md.ty = "dir" THEN JoinEmpty(rel) ELSE rel,
     record |->
        [encoded_path_b64 |-> B64Encode(rel),
         ty |-> md.ty,
         size |-> IF md.ty = "file" THEN <<md.len>> ELSE <<>>,
         mtime_ns |-> mtime_ns(md),
         mode |-> <<md.mode % 4096>>,
         link_target |-> <<>>]]

\* an entry that records the length of every node
EntryForAlwaysSized(rel, md) ==
    [path_key |-> IF md.ty = "dir" THEN JoinEmpty(rel) ELSE rel,
     record |->
        [encoded_path_b64 |-> B64Encode(rel),
         ty |-> md.ty,
         size |-> <<md.len>>,
         mtime_ns |-> mtime_ns(md),
         mode |-> <<md.mode % 4096>>,
         link_target |-> IF md.ty = "symlink" THEN <<md.target>> ELSE <<>>]]

\* the ManifestEntry built from rel and its metadata
EntryFor(rel, md) ==
    [path_key |-> IF md.ty = "dir" THEN JoinEmpty(rel) ELSE rel,
     record |->
        [encoded_path_b64 |-> B64Encode(rel),
         ty |-> md.ty,
         size |-> IF md.ty = "file" THEN <<md.len>> ELSE <<>>,
         mtime_ns |-> mtime_ns(md),
         mode |-> <<md.mode % 4096>>,
         link_target |-> IF md.ty = "symlink" THEN <<md.target>> ELSE <<>>]]

\* ManifestEntry::from_rel_path(root, rel): not ok where symlink_metadata fails
\* and the code panics
from_rel_path(t, tf, rel) ==
    IF Resolve(t, rel) \notin DOMAIN t /\ ~(rel = TRACKING_FILENAME /\ tf.kind # "none")
    THEN Fail
    ELSE Ok(EntryFor(rel, Metadata(t, tf, rel)), 0)

-----------------------------------------------------------------------------
(* lib.rs: the tracking file and the walk *)

\* a tracking file opened with File::create: an existing one is emptied
write_tracking_file_truncating(d, tf) ==
    IF d # "dir" THEN Fail
    ELSE IF tf.kind = "none" \/ tf.kind = "file" THEN Ok(RegularFile(<<>>), 0)
    ELSE Fail

\* a tracking file opened with no look at what is there: whatever is at the
\* path, a regular file is there afterwards
write_tracking_file_unchecked(d, tf) ==
    IF tf.kind = "file" THEN Ok(tf, 0) ELSE Ok(RegularFile(<<>>), 0)

\* write_tracking_file(dir), d being what fs::metadata finds at dir: the
\* tracking file afterwards; not ok where the code panics (dir is no directory
\* or does not exist, or the tracking path is taken by something that is no
\* regular file).  OpenOptions create + read + write: an absent file is
\* created empty, an existing one is opened as it is.
write_tracking_file(d, tf) ==
    IF d # "dir" THEN Fail
    ELSE IF tf.kind = "none" THEN Ok(RegularFile(<<>>), 0)
    ELSE IF tf.kind = "file" THEN Ok(tf, 0)
    ELSE Fail

\* a walk that follows links: the entry at root/rel is opened when it is a
\* directory or a symlink to one
DescendsFollowing(t, tf, rel) ==
    Metadata(t, tf, IF rel \in DOMAIN t THEN Opened(t, rel) ELSE rel).ty = "dir"

\* WalkDir::new(root).follow_links(false): the entry at root/rel is opened
\* when it is a directory itself
Descends(t, tf, rel) == Metadata(t, tf, rel).ty = "dir"

\* the filter_entry closure of discover_files for the entry at root/rel (depth > 0)
Allowed(arg, rel) ==
    \/ arg = <<>>
    \/ \E q \in arg[1] : PathStartsWith(JoinEmpty(Root) \o rel, Root \o <<47>> \o q)

\* a directory whose children are all yielded is left
RECURSIVE PopDone(_)
PopDone(st) ==
    IF st # <<>> /\ st[Len(st)] = {} THEN PopDone(SubSeq(st, 1, Len(st) - 1)) ELSE st

\* the stable sort_by of discover_files on path_key.cmp: x goes behind every
\* entry that is not greater
RECURSIVE InsertByPath(_, _)
InsertByPath(x, es) ==
    IF es = <<>> THEN <<x>>
    ELSE IF PathLess(x.path_key, es[Len(es)].path_key)
    THEN Append(InsertByPath(x, SubSeq(es, 1, Len(es) - 1)), es[Len(es)])
    ELSE Append(es, x)

RECURSIVE SortByPath(_)
SortByPath(es) ==
    IF es = <<>> THEN <<>>
    ELSE InsertByPath(es[Len(es)], SortByPath(SubSeq(es, 1, Len(es) - 1)))

\* a File opened without truncation, written from offset 0: the bytes behind
\* the written ones stay
WriteAtStart(old, new) == new \o SubSeq(old, Len(new) + 1, Len(old))

KeysOf(rs) ==
    IF \E i \in 1..Len(rs) : ~rs[i].ok THEN Fail
    ELSE Ok(SortStr([i \in 1..Len(rs) |-> rs[i].val]), 0)

\* read_tracking_file_into_filepaths on the file's content: every line (blank
\* ones too) through deserialize_path_key, then sorted; not ok where the code
\* panics (read_to_string on text that is not UTF-8, or a line with no key)
read_tracking_file_into_filepaths(content) ==
    IF ~IsUtf8(content) THEN Fail
    ELSE KeysOf([i \in 1..Len(Lines(content)) |->
                    deserialize_path_key(Lines(content)[i])])

Panic ==
    /\ pc' = "panicked"
    /\ UNCHANGED <<tree, tfile, prefixes, stack, out, listing, lines, history,
                   before, keys, manifest, rendered, last,
                   dirKind, relPath, encoded, decoded>>

\* the results of the operation before are dropped when the next one starts
Forget ==
    /\ out' = <<>>
    /\ listing' = <<>>
    /\ lines' = <<>>
    /\ keys' = <<>>
    /\ manifest' = <<>>
    /\ rendered' = <<>>

\* The path dir is a directory with one of the trees, or (with nothing below
\* it) a regular file, or it does not exist.  At the tracking path there is
\* nothing, a regular file, a directory, a symlink to an empty regular file, or
\* a socket.
Init ==
    /\ dirKind \in {"dir", "file", "absent"}
    /\ tree \in IF dirKind = "dir" THEN Trees ELSE {TreeEmpty}
    /\ tfile \in IF dirKind = "dir"
                 THEN {NoFile, RegularFile(OurString)}
                      \cup {[kind |-> k, content |-> <<>>] :
                                k \in {"dir", "symlink", "socket"}}
                 ELSE {NoFile}
    /\ pc = "idle"
    /\ prefixes = <<>>
    /\ stack = <<>>
    /\ out = <<>>
    /\ listing = <<>>
    /\ lines = <<>>
    /\ history = [a \in PrefixArgs |-> {}]
    /\ before = tfile
    /\ keys = <<>>
    /\ manifest = <<>>
    /\ rendered = <<>>
    /\ last = "none"
    /\ relPath = <<>>
    /\ encoded = <<>>
    /\ decoded = <<>>

Acquired(r) ==
    IF r.ok
    THEN /\ tfile' = r.val
         /\ before' = tfile
         /\ last' = "acquire"
         /\ UNCHANGED <<dirKind, relPath, encoded, decoded>>
         /\ Forget
         /\ UNCHANGED <<tree, pc, prefixes, stack, history>>
    ELSE Panic

\* write_tracking_file(dir), called on its own
Acquire ==
    /\ pc = "idle"
    /\ Acquired(write_tracking_file(dirKind, tfile))

StartWalk(arg, r) ==
    IF r.ok
    THEN /\ tfile' = r.val
         /\ before' = tfile
         /\ prefixes' = arg
         /\ stack' = PopDone(<<Children(tree, r.val, <<>>)>>)
         /\ pc' = "walking"
         /\ last' = "none"
         /\ UNCHANGED <<dirKind, relPath, encoded, decoded>>
         /\ Forget
         /\ UNCHANGED <<tree, history>>
    ELSE Panic

\* write_tracking_file_with_content(dir, allowed_prefix) up to the first entry
\* of the walk: the file is acquired, WalkDir yields the root (depth 0, which
\* the filter lets through and the listing leaves out) and opens it
BeginWrite ==
    /\ pc = "idle"
    /\ \E arg \in PrefixArgs : StartWalk(arg, write_tracking_file(dirKind, tfile))

\* the entry at rel passed the filter and is no tracking file: e is what
\* from_rel_path gives for it
Collect(rel, rest, e) ==
    IF ~e.ok THEN Panic
    ELSE /\ out' = Append(out, e.val)
         /\ stack' = PopDone(IF Descends(tree, tfile, rel)
                             THEN Append(rest, Children(tree, tfile, rel))
                             ELSE rest)
         /\ UNCHANGED <<tree, tfile, pc, prefixes, listing, lines, history,
                        before, keys, manifest, rendered, last,
                        dirKind, relPath, encoded, decoded>>

\* a walk that does not leave the tracking file's name out
WalkNextKeepingTracker ==
    /\ pc = "walking"
    /\ stack # <<>>
    /\ \E rel \in stack[Len(stack)] :
        IF ~Allowed(prefixes, rel)
        THEN /\ stack' = PopDone([stack EXCEPT ![Len(stack)] = @ \ {rel}])
             /\ UNCHANGED <<tree, tfile, pc, prefixes, out, listing, lines,
                            history, before, keys, manifest, rendered, last,
                            dirKind, relPath, encoded, decoded>>
        ELSE Collect(rel, [stack EXCEPT ![Len(stack)] = @ \ {rel}],
                     from_rel_path(tree, tfile, rel))

\* discover_files, one entry of the WalkDir iterator: any child of the
\* directory being read comes next; an entry the filter rejects is skipped and
\* not descended into; the tracking file's name is left out; a directory (never
\* a symlink) is opened
WalkNext ==
    /\ pc = "walking"
    /\ stack # <<>>
    /\ \E rel \in stack[Len(stack)] :
        IF ~Allowed(prefixes, rel) \/ rel = TRACKING_FILENAME
        THEN /\ stack' = PopDone([stack EXCEPT ![Len(stack)] = @ \ {rel}])
             /\ UNCHANGED <<tree, tfile, pc, prefixes, out, listing, lines,
                            history, before, keys, manifest, rendered, last,
                            dirKind, relPath, encoded, decoded>>
        ELSE Collect(rel, [stack EXCEPT ![Len(stack)] = @ \ {rel}],
                     from_rel_path(tree, tfile, rel))

\* the listing is sorted; data is what serializing it gives
WriteListing(sorted, data) ==
    IF data.ok
    THEN /\ listing' = sorted
         /\ lines' = data.val
         /\ tfile' = RegularFile(WriteAtStart(tfile.content, FileText(data.val)))
         /\ history' = [history EXCEPT ![prefixes] = @ \cup {data.val}]
         /\ pc' = "idle"
         /\ last' = "write"
         /\ UNCHANGED <<dirKind, relPath, encoded, decoded>>
         /\ UNCHANGED <<tree, prefixes, stack, out, before, keys, manifest, rendered>>
    ELSE Panic

\* the lines of the pairs as they stand, none sorted
LinesInOrder(rs) ==
    IF \E i \in 1..Len(rs) : ~rs[i].ok THEN Fail
    ELSE Ok([i \in 1..Len(rs) |->
                RenderLine(rs[i].val, PadTo([j \in 1..Len(rs) |-> rs[j].val]))], 0)

\* the entries written in the order the walk yielded them
FinishWriteInWalkOrder ==
    /\ pc = "walking"
    /\ stack = <<>>
    /\ WriteListing(out, LinesInOrder([i \in 1..Len(out) |-> serialize_entry(out[i])]))

\* the end of discover_files (the sort) and the rest of
\* write_tracking_file_with_content: the listing serialized and written, line
\* by line, through the handle write_tracking_file returned
FinishWrite ==
    /\ pc = "walking"
    /\ stack = <<>>
    /\ WriteListing(SortByPath(out), serialize(SortByPath(out)))

ReadKeys(r) ==
    IF tfile.kind \in {"file", "symlink"} /\ r.ok
    THEN /\ keys' = r.val
         /\ last' = "read_keys"
         /\ UNCHANGED <<dirKind, relPath, encoded, decoded>>
         /\ before' = tfile
         /\ out' = <<>>
         /\ listing' = <<>>
         /\ lines' = <<>>
         /\ manifest' = <<>>
         /\ rendered' = <<>>
         /\ UNCHANGED <<tree, tfile, pc, prefixes, stack, history>>
    ELSE Panic

\* read_tracking_file_into_filepaths(tracking_file)
ReadFilepaths ==
    /\ pc = "idle"
    /\ ReadKeys(read_tracking_file_into_filepaths(tfile.content))

ReadEntries(results) ==
    IF tfile.kind \in {"file", "symlink"} /\ IsUtf8(tfile.content) /\ results # {}
    THEN /\ manifest' \in results
         /\ last' = "read_manifest"
         /\ UNCHANGED <<dirKind, relPath, encoded, decoded>>
         /\ before' = tfile
         /\ out' = <<>>
         /\ listing' = <<>>
         /\ lines' = <<>>
         /\ keys' = <<>>
         /\ rendered' = <<>>
         /\ UNCHANGED <<tree, tfile, pc, prefixes, stack, history>>
    ELSE Panic

\* read_tracking_file_into_manifests(tracking_file)
ReadManifests ==
    /\ pc = "idle"
    /\ ReadEntries(deserialize_manifest(tfile.content))

\* the caller writes through the handle it holds, as test_write_tracking_file
\* does: set_len(0), then write_all(our_string)
HandWrite ==
    /\ pc = "idle"
    /\ tfile.kind = "file"
    /\ tfile' = RegularFile(OurString)
    /\ before' = tfile
    /\ last' = "hand_write"
    /\ UNCHANGED <<dirKind, relPath, encoded, decoded>>
    /\ Forget
    /\ UNCHANGED <<tree, pc, prefixes, stack, history>>

Rerendered(data) ==
    IF data.ok
    THEN /\ rendered' = data.val
         /\ last' = "reserialize"
         /\ UNCHANGED <<dirKind, relPath, encoded, decoded>>
         /\ UNCHANGED <<tree, tfile, pc, prefixes, stack, out, listing, lines,
                        history, before, keys, manifest>>
    ELSE Panic

\* the entries read from the tracking file are serialized again, as
\* check_serialized_deserialization_is_same does
Reserialize ==
    /\ pc = "idle"
    /\ last = "read_manifest"
    /\ Rerendered(serialize(manifest))

Next ==
    \/ Acquire
    \/ BeginWrite
    \/ WalkNext
    \/ FinishWrite
    \/ ReadFilepaths
    \/ ReadManifests
    \/ Reserialize
    \/ HandWrite

Spec == Init /\ [][Next]_vars

-----------------------------------------------------------------------------
(* The library beside another process that removes a file during the walk *)

\* Another process unlinks a file or symlink that WalkDir has not yielded yet
\* (at most one per run: the tree is still one of Trees).  The entry is still
\* yielded when read_dir had it buffered, and is not when the directory is
\* read after the unlink.
Delete ==
    /\ pc = "walking"
    /\ tree \in Trees
    /\ \E p \in {q \in DOMAIN tree : tree[q].ty # "dir"} :
        /\ \E i \in 1..Len(stack) : p \in stack[i]
        /\ tree' = [q \in DOMAIN tree \ {p} |-> tree[q]]
        /\ stack' \in {stack, PopDone([i \in 1..Len(stack) |-> stack[i] \ {p}])}
    /\ UNCHANGED <<tfile, pc, prefixes, out, listing, lines, history, before, keys,
                   manifest, rendered, last, dirKind, relPath, encoded, decoded>>

RaceNext ==
    \/ Next
    \/ Delete

SpecRace == Init /\ [][RaceNext]_vars

-----------------------------------------------------------------------------
(* Manifest::serialize and Manifest::deserialize_manifest on manifests of any
   content: listing is the manifest that is serialized, lines its lines,
   manifest what deserializing them gives, rendered the lines of that. *)

\* the bytes of the keys below
Key ==
    [quote |-> <<113, 34>>,             \* q"
     backslash |-> <<92, 10>>,          \* a backslash and a line feed
     wide |-> <<227, 131, 143, 47>>,    \* U+30CF and a slash
     raw |-> <<255>>]                   \* a byte that is no UTF-8

\* ManifestEntry values: keys that need escaping, a wide glyph, two entries
\* with one key, absent and present Option fields, a negative mtime_ns, and a
\* key that is no UTF-8
EntryPool ==
    {[path_key |-> Key.quote,
      record |-> [encoded_path_b64 |-> B64Encode(Key.quote), ty |-> "file",
                  size |-> <<0>>, mtime_ns |-> 1, mode |-> <<420>>,
                  link_target |-> <<>>]],
     [path_key |-> Key.backslash,
      record |-> [encoded_path_b64 |-> B64Encode(Key.backslash), ty |-> "other",
                  size |-> <<>>, mtime_ns |-> 0 - 1, mode |-> <<>>,
                  link_target |-> <<>>]],
     [path_key |-> Key.wide,
      record |-> [encoded_path_b64 |-> B64Encode(Name.wide), ty |-> "dir",
                  size |-> <<>>, mtime_ns |-> 2, mode |-> <<493>>,
                  link_target |-> <<>>]],
     [path_key |-> Key.quote,
      record |-> [encoded_path_b64 |-> B64Encode(Key.quote), ty |-> "symlink",
                  size |-> <<>>, mtime_ns |-> 0, mode |-> <<511>>,
                  link_target |-> <<Key.backslash>>]],
     [path_key |-> Key.raw,
      record |-> [encoded_path_b64 |-> B64Encode(Key.raw), ty |-> "file",
                  size |-> <<3>>, mtime_ns |-> 3, mode |-> <<420>>,
                  link_target |-> <<>>]]}

\* the longest manifest of the model
MaxEntries == 3

CodecInit ==
    /\ listing \in UNION {[1..n -> EntryPool] : n \in 0..MaxEntries}
    /\ tree = TreeEmpty
    /\ tfile = NoFile
    /\ pc = "idle"
    /\ prefixes = <<>>
    /\ stack = <<>>
    /\ out = <<>>
    /\ lines = <<>>
    /\ history = [a \in PrefixArgs |-> {}]
    /\ before = tfile
    /\ keys = <<>>
    /\ manifest = <<>>
    /\ rendered = <<>>
    /\ last = "none"
    /\ dirKind = "dir"
    /\ relPath = <<>>
    /\ encoded = <<>>
    /\ decoded = <<>>

Serialized(data) ==
    IF data.ok
    THEN /\ lines' = data.val
         /\ last' = "serialize"
         /\ UNCHANGED <<dirKind, relPath, encoded, decoded>>
         /\ UNCHANGED <<tree, tfile, pc, prefixes, stack, out, listing, history,
                        before, keys, manifest, rendered>>
    ELSE Panic

\* Manifest::serialize(&listing)
SerializeManifest ==
    /\ pc = "idle"
    /\ last = "none"
    /\ Serialized(serialize(listing))

Deserialized(results) ==
    IF results # {}
    THEN /\ manifest' \in results
         /\ last' = "deserialize"
         /\ UNCHANGED <<dirKind, relPath, encoded, decoded>>
         /\ UNCHANGED <<tree, tfile, pc, prefixes, stack, out, listing, lines,
                        history, before, keys, rendered>>
    ELSE Panic

\* Manifest::deserialize_manifest on the lines, each ended by a line feed
DeserializeLines ==
    /\ pc = "idle"
    /\ last = "serialize"
    /\ Deserialized(deserialize_manifest(FileText(lines)))

SerializedAgain(data) ==
    IF data.ok
    THEN /\ rendered' = data.val
         /\ last' = "reserialize"
         /\ UNCHANGED <<dirKind, relPath, encoded, decoded>>
         /\ UNCHANGED <<tree, tfile, pc, prefixes, stack, out, listing, lines,
                        history, before, keys, manifest>>
    ELSE Panic

\* Manifest::serialize(&manifest)
SerializeAgain ==
    /\ pc = "idle"
    /\ last = "deserialize"
    /\ SerializedAgain(serialize(manifest))

CodecNext ==
    \/ SerializeManifest
    \/ DeserializeLines
    \/ SerializeAgain

SpecCodec == CodecInit /\ [][CodecNext]_vars

-----------------------------------------------------------------------------
(* ManifestEntry::from_rel_path, the path encoding and serialize on one path of
   any bytes: relPath is the path, tree holds the one node at it (when the
   operating system lets a file have that name), encoded and decoded are the
   base64 text of the path and what decoding it gives, listing the entry built
   for the node and lines its serialization. *)

MaxPathLen == 3

\* what can be at the path: one node of each type, a symlink whose target is
\* no UTF-8, a file from before the epoch, a file whose modification time
\* Metadata::modified() cannot give
EntryNodes ==
    {File(11, 5), File(0, -3), Dir(7), Symlink(Name.a, 4), Symlink(Key.raw, 2),
     Special(1), [File(3, 8) EXCEPT !.modified = FALSE]}

EntryInit ==
    \* paths of NUL, a line feed, a letter, the two bytes of U+00E9 and a byte
    \* that no UTF-8 text holds
    /\ relPath \in UNION {[1..n -> {0, 10, 97, 195, 169, 255}] : n \in 0..MaxPathLen}
    \* a file can have the name when it is not empty and holds no NUL, no slash
    /\ tree \in IF relPath # <<>> /\ \A i \in 1..Len(relPath) : relPath[i] \notin {0, 47}
                THEN {[p \in {relPath} |-> n] : n \in EntryNodes}
                ELSE {TreeEmpty}
    /\ tfile = NoFile
    /\ pc = "idle"
    /\ prefixes = <<>>
    /\ stack = <<>>
    /\ out = <<>>
    /\ listing = <<>>
    /\ lines = <<>>
    /\ history = [a \in PrefixArgs |-> {}]
    /\ before = tfile
    /\ keys = <<>>
    /\ manifest = <<>>
    /\ rendered = <<>>
    /\ last = "none"
    /\ dirKind = "dir"
    /\ encoded = <<>>
    /\ decoded = <<>>

\* STANDARD_NO_PAD.encode(&*rel.to_raw_bytes())
EncodePath ==
    /\ pc = "idle"
    /\ last = "none"
    /\ encoded' = B64Encode(relPath)
    /\ last' = "encode"
    /\ UNCHANGED <<tree, tfile, pc, prefixes, stack, out, listing, lines, history,
                   before, keys, manifest, rendered, dirKind, relPath, decoded>>

\* STANDARD_NO_PAD.decode(encoded), unwrapped
DecodePath ==
    /\ pc = "idle"
    /\ last = "encode"
    /\ IF B64Decode(encoded).ok
       THEN /\ decoded' = <<B64Decode(encoded).val>>
            /\ last' = "decode"
            /\ UNCHANGED <<tree, tfile, pc, prefixes, stack, out, listing, lines,
                           history, before, keys, manifest, rendered, dirKind,
                           relPath, encoded>>
       ELSE Panic

\* ManifestEntry::from_rel_path(root, rel)
BuildEntry ==
    /\ pc = "idle"
    /\ last = "none"
    /\ relPath # <<>>
    /\ IF from_rel_path(tree, tfile, relPath).ok
       THEN /\ listing' = <<from_rel_path(tree, tfile, relPath).val>>
            /\ last' = "build"
            /\ UNCHANGED <<tree, tfile, pc, prefixes, stack, out, lines, history,
                           before, keys, manifest, rendered, dirKind, relPath,
                           encoded, decoded>>
       ELSE Panic

\* Manifest::serialize on the manifest of the entry built
SerializeBuilt ==
    /\ pc = "idle"
    /\ last = "build"
    /\ Serialized(serialize(listing))

EntryNext ==
    \/ EncodePath
    \/ DecodePath
    \/ BuildEntry
    \/ SerializeBuilt

SpecEntry == EntryInit /\ [][EntryNext]_vars

-----------------------------------------------------------------------------
(* The readers on a tracking file that was edited by hand: the file holds up
   to MaxLines of the lines below, each ended by a line feed. *)

MaxLines == 2

\* lines a tracking file can hold
Hand ==
    [ \* a line as Manifest::serialize writes it: "a"  {"encoded_path_b64":"YQ","ty":"file","size":0,"mtime_ns":1}
     file |->
         <<34, 97, 34, 32, 32, 123, 34, 101, 110, 99, 111, 100, 101, 100, 95,
           112, 97, 116, 104, 95, 98, 54, 52, 34, 58, 34, 89, 81, 34, 44, 34,
           116, 121, 34, 58, 34, 102, 105, 108, 101, 34, 44, 34, 115, 105, 122,
           101, 34, 58, 48, 44, 34, 109, 116, 105, 109, 101, 95, 110, 115, 34,
           58, 49, 125>>,
     \* the line of a directory: "d/"  {"encoded_path_b64":"ZA","ty":"dir","mtime_ns":2,"mode":493}
     dir |->
         <<34, 100, 47, 34, 32, 32, 123, 34, 101, 110, 99, 111, 100, 101, 100,
           95, 112, 97, 116, 104, 95, 98, 54, 52, 34, 58, 34, 90, 65, 34, 44,
           34, 116, 121, 34, 58, 34, 100, 105, 114, 34, 44, 34, 109, 116, 105,
           109, 101, 95, 110, 115, 34, 58, 50, 44, 34, 109, 111, 100, 101, 34,
           58, 52, 57, 51, 125>>,
     \* an empty line: ''
     empty |->
         <<>>,
     \* a line of two spaces: '  '
     spaces |->
         <<32, 32>>,
     \* content behind the record: "a"  {"encoded_path_b64":"YQ","ty":"file","mtime_ns":1} x
     junk |->
         <<34, 97, 34, 32, 32, 123, 34, 101, 110, 99, 111, 100, 101, 100, 95,
           112, 97, 116, 104, 95, 98, 54, 52, 34, 58, 34, 89, 81, 34, 44, 34,
           116, 121, 34, 58, 34, 102, 105, 108, 101, 34, 44, 34, 109, 116, 105,
           109, 101, 95, 110, 115, 34, 58, 49, 125, 32, 120>>,
     \* a comma behind the record: "a"  {"encoded_path_b64":"YQ","ty":"file","mtime_ns":1},
     comma |->
         <<34, 97, 34, 32, 32, 123, 34, 101, 110, 99, 111, 100, 101, 100, 95,
           112, 97, 116, 104, 95, 98, 54, 52, 34, 58, 34, 89, 81, 34, 44, 34,
           116, 121, 34, 58, 34, 102, 105, 108, 101, 34, 44, 34, 109, 116, 105,
           109, 101, 95, 110, 115, 34, 58, 49, 125, 44>>,
     \* no record: "a"
     key_only |->
         <<34, 97, 34>>,
     \* a record without its required fields: "b" {"ty":"file"}
     no_fields |->
         <<34, 98, 34, 32, 123, 34, 116, 121, 34, 58, 34, 102, 105, 108, 101,
           34, 125>>,
     \* a number for the record: "b" 7
     number |->
         <<34, 98, 34, 32, 55>>,
     \* a key that is no JSON string: a {"encoded_path_b64":"YQ","ty":"file","mtime_ns":1}
     unquoted |->
         <<97, 32, 123, 34, 101, 110, 99, 111, 100, 101, 100, 95, 112, 97, 116,
           104, 95, 98, 54, 52, 34, 58, 34, 89, 81, 34, 44, 34, 116, 121, 34,
           58, 34, 102, 105, 108, 101, 34, 44, 34, 109, 116, 105, 109, 101, 95,
           110, 115, 34, 58, 49, 125>>,
     \* a key whose closing quote is missing: "a  {"encoded_path_b64":"YQ","ty":"file","mtime_ns":1}
     open_key |->
         <<34, 97, 32, 32, 123, 34, 101, 110, 99, 111, 100, 101, 100, 95, 112,
           97, 116, 104, 95, 98, 54, 52, 34, 58, 34, 89, 81, 34, 44, 34, 116,
           121, 34, 58, 34, 102, 105, 108, 101, 34, 44, 34, 109, 116, 105, 109,
           101, 95, 110, 115, 34, 58, 49, 125>>,
     \* the values of the fields as a JSON array: "c" ["Yw","file",null,0,null,null]
     array |->
         <<34, 99, 34, 32, 91, 34, 89, 119, 34, 44, 34, 102, 105, 108, 101, 34,
           44, 110, 117, 108, 108, 44, 48, 44, 110, 117, 108, 108, 44, 110,
           117, 108, 108, 93>>,
     \* the key of a directory, the type of a file: "a/" {"encoded_path_b64":"YQ","ty":"file","mtime_ns":1}
     slash_file |->
         <<34, 97, 47, 34, 32, 123, 34, 101, 110, 99, 111, 100, 101, 100, 95,
           112, 97, 116, 104, 95, 98, 54, 52, 34, 58, 34, 89, 81, 34, 44, 34,
           116, 121, 34, 58, 34, 102, 105, 108, 101, 34, 44, 34, 109, 116, 105,
           109, 101, 95, 110, 115, 34, 58, 49, 125>>,
     \* a directory whose key has no slash: "e" {"encoded_path_b64":"ZQ","ty":"dir","mtime_ns":1}
     bare_dir |->
         <<34, 101, 34, 32, 123, 34, 101, 110, 99, 111, 100, 101, 100, 95, 112,
           97, 116, 104, 95, 98, 54, 52, 34, 58, 34, 90, 81, 34, 44, 34, 116,
           121, 34, 58, 34, 100, 105, 114, 34, 44, 34, 109, 116, 105, 109, 101,
           95, 110, 115, 34, 58, 49, 125>>,
     \* no space before the record, a tab behind it: "f"{"encoded_path_b64":"Zg","ty":"other","mtime_ns":1}\t
     tight |->
         <<34, 102, 34, 123, 34, 101, 110, 99, 111, 100, 101, 100, 95, 112, 97,
           116, 104, 95, 98, 54, 52, 34, 58, 34, 90, 103, 34, 44, 34, 116, 121,
           34, 58, 34, 111, 116, 104, 101, 114, 34, 44, 34, 109, 116, 105, 109,
           101, 95, 110, 115, 34, 58, 49, 125, 9>>]

ReadInit ==
    /\ tree = TreeEmpty
    /\ tfile \in {RegularFile(FileText(ls)) :
                    ls \in UNION {[1..n -> {Hand[k] : k \in DOMAIN Hand}] :
                                    n \in 0..MaxLines}}
    /\ pc = "idle"
    /\ prefixes = <<>>
    /\ stack = <<>>
    /\ out = <<>>
    /\ listing = <<>>
    /\ lines = <<>>
    /\ history = [a \in PrefixArgs |-> {}]
    /\ before = tfile
    /\ keys = <<>>
    /\ manifest = <<>>
    /\ rendered = <<>>
    /\ last = "none"
    /\ dirKind = "dir"
    /\ relPath = <<>>
    /\ encoded = <<>>
    /\ decoded = <<>>

ReadNext ==
    \/ ReadFilepaths
    \/ ReadManifests
    \/ Reserialize

SpecRead == ReadInit /\ [][ReadNext]_vars

-----------------------------------------------------------------------------
(* The files_sync crate: its write_tracking_file and the fixture its test
   builds below the directory, entry by entry.  tree is the fixture so far,
   tfile what is at the tracking path, lines the lines the test reads back. *)

\* after fs::remove_dir_all(&root)
FixtureInit ==
    /\ dirKind = "absent"
    /\ tree = TreeEmpty
    /\ tfile = NoFile
    /\ pc = "idle"
    /\ prefixes = <<>>
    /\ stack = <<>>
    /\ out = <<>>
    /\ listing = <<>>
    /\ lines = <<>>
    /\ history = [a \in PrefixArgs |-> {}]
    /\ before = tfile
    /\ keys = <<>>
    /\ manifest = <<>>
    /\ rendered = <<>>
    /\ last = "none"
    /\ relPath = <<>>
    /\ encoded = <<>>
    /\ decoded = <<>>

\* create_entry(root, rel, contents): f1/a.txt (empty), f1/b.txt, f2/a.txt,
\* f2/.h, and the empty directory e/; fs::create_dir_all makes the directories
\* above the entry
CreateEntry ==
    /\ pc = "idle"
    /\ \E f \in {[names |-> <<Name.f1, Name.a_txt>>, node |-> File(0, 2)],
                 [names |-> <<Name.f1, Name.b_txt>>, node |-> File(11, 2)],
                 [names |-> <<Name.f2, Name.a_txt>>, node |-> File(9, 2)],
                 [names |-> <<Name.f2, Name.hidden>>, node |-> File(6, 2)],
                 [names |-> <<Name.e>>, node |-> Dir(2)]} :
            tree' = [p \in DOMAIN tree
                            \cup {Rel(SubSeq(f.names, 1, k)) : k \in 1..Len(f.names)} |->
                        IF p = Rel(f.names) THEN f.node
                        ELSE IF p \in DOMAIN tree THEN tree[p]
                        ELSE Dir(1)]
    /\ dirKind' = "dir"
    /\ last' = "entry"
    /\ lines' = <<>>
    /\ UNCHANGED <<tfile, pc, prefixes, stack, out, listing, history, before,
                   keys, manifest, rendered, relPath, encoded, decoded>>

\* create_symlink(root, link_rel, target): f2/link -> ../f1/b.txt
CreateSymlink ==
    /\ pc = "idle"
    /\ tree' = [p \in DOMAIN tree \cup {Rel(<<Name.f2>>), Rel(<<Name.f2, Name.link>>)} |->
                    IF p = Rel(<<Name.f2, Name.link>>)
                    THEN Symlink(<<46, 46, 47>> \o Rel(<<Name.f1, Name.b_txt>>), 2)
                    ELSE IF p \in DOMAIN tree THEN tree[p]
                    ELSE Dir(1)]
    /\ dirKind' = "dir"
    /\ last' = "entry"
    /\ lines' = <<>>
    /\ UNCHANGED <<tfile, pc, prefixes, stack, out, listing, history, before,
                   keys, manifest, rendered, relPath, encoded, decoded>>

\* files_sync::write_tracking_file(dir): dir must be a directory, the tracking
\* path free or a regular file; File::create then leaves an empty file there
CreateTrackingFile ==
    /\ pc = "idle"
    /\ IF dirKind = "dir" /\ tfile.kind \in {"none", "file"}
       THEN /\ tfile' = RegularFile(<<>>)
            /\ before' = tfile
            /\ last' = "create"
            /\ lines' = <<>>
            /\ UNCHANGED <<tree, pc, prefixes, stack, out, listing, history, keys,
                           manifest, rendered, dirKind, relPath, encoded, decoded>>
       ELSE Panic

\* the test's read_to_string(&tracking_path).unwrap() and content.lines()
CountLines ==
    /\ pc = "idle"
    /\ last = "create"
    /\ lines' = Lines(tfile.content)
    /\ last' = "count"
    /\ UNCHANGED <<tree, tfile, pc, prefixes, stack, out, listing, history,
                   before, keys, manifest, rendered, dirKind, relPath, encoded,
                   decoded>>

FixtureNext ==
    \/ CreateEntry
    \/ CreateSymlink
    \/ CreateTrackingFile
    \/ CountLines

SpecFixture == FixtureInit /\ [][FixtureNext]_vars

-----------------------------------------------------------------------------
(* table_formatter: a line to its cells, the columns' widths and kinds, the
   rows as aligned lines.  Text is bytes of UTF-8, as everywhere above. *)

\* const DEFAULT_SEPARATOR
DEFAULT_SEPARATOR == 2

\* char::is_whitespace and the regex crate's \s, for characters of one byte
IsSpace(b) == b = 32 \/ (b >= 9 /\ b <= 13)

\* str::trim
Trimmed(s) ==
    IF \A i \in 1..Len(s) : IsSpace(s[i]) THEN <<>>
    ELSE SubSeq(s,
                CHOOSE i \in 1..Len(s) :
                    ~IsSpace(s[i]) /\ \A k \in 1..(i - 1) : IsSpace(s[k]),
                CHOOSE j \in 1..Len(s) :
                    ~IsSpace(s[j]) /\ \A k \in (j + 1)..Len(s) : IsSpace(s[k]))

\* the index behind the whitespace that starts at s[i]
RECURSIVE SpaceEnd(_, _)
SpaceEnd(s, i) == IF i <= Len(s) /\ IsSpace(s[i]) THEN SpaceEnd(s, i + 1) ELSE i

\* SPLIT_PATTERN \s{2,}|\t+ at s[i], which is not in the middle of whitespace:
\* the index behind the match (two or more whitespace characters, else one
\* tab), i where there is none
SepEnd(s, i) ==
    IF SpaceEnd(s, i) >= i + 2 THEN SpaceEnd(s, i)
    ELSE IF s[i] = 9 THEN i + 1
    ELSE i

\* Regex::split: the pieces of s between the matches, the piece being read
\* having begun at s[start]
RECURSIVE SplitCells(_, _, _)
SplitCells(s, i, start) ==
    IF i > Len(s) THEN <<SubSeq(s, start, Len(s))>>
    ELSE IF SepEnd(s, i) > i
    THEN <<SubSeq(s, start, i - 1)>> \o SplitCells(s, SepEnd(s, i), SepEnd(s, i))
    ELSE SplitCells(s, i + 1, start)

\* a line split as it is, the whitespace around it not trimmed
split_row_untrimmed(line) == SplitCells(line, 1, 1)

\* split_row(line)
split_row(line) == SplitCells(Trimmed(line), 1, 1)

\* visible_len(text): the display width of the text without its ANSI escape
\* sequences (no line of the model holds one)
visible_len(text) == get_str_visual_width(text)

\* the indices behind one of the texts of lits read at an index of P
Step(s, P, lits) == {i + Len(l) : <<i, l>> \in {x \in P \X lits : HasAt(s, x[1], x[2])}}

\* the indices behind [0-9]+ read at an index of P
Digits(s, P) ==
    {j \in 2..(Len(s) + 1) : \E i \in P : i < j /\ \A k \in i..(j - 1) : IsDigit(s[k])}

\* NUMERIC_PATTERN.is_match(s):
\* ^[+-]?[0-9]+(?:\.[0-9]+)?\s?[pKkMmGgTt]?(?:i?[bB]?(/s)?|%|Hz|@[0-9]+Hz)?$
NUMERIC_PATTERN(s) ==
    LET number == Digits(s, {1} \cup Step(s, {1}, {<<43>>, <<45>>}))
        decimal == number \cup Digits(s, Step(s, number, {<<46>>}))
        spaced == decimal \cup Step(s, decimal, {<<b>> : b \in {9, 10, 11, 12, 13, 32}})
        scaled == spaced \cup Step(s, spaced, {<<b>> : b \in {112, 75, 107, 77, 109, 71, 103, 84, 116}})
        binary == scaled \cup Step(s, scaled, {<<105>>})
        bytes == binary \cup Step(s, binary, {<<98>>, <<66>>})
    IN  Len(s) + 1 \in
            bytes \cup Step(s, bytes, {<<47, 115>>})
            \cup Step(s, scaled, {<<37>>, <<72, 122>>})
            \cup Step(s, Digits(s, Step(s, scaled, {<<64>>})), {<<72, 122>>})

\* is_numeric_or_neutral(text)
is_numeric_or_neutral(text) ==
    \/ Trimmed(text) \in {<<>>, <<45>>, <<45, 45>>, <<45, 45, 45>>, <<42>>,
                          <<226, 136, 146>>, <<61>>, <<121>>, <<110>>}
    \/ NUMERIC_PATTERN(Trimmed(text))

\* the index behind the match of ^[-+]?\d+(\.\d+)? in t, 0 where there is none
NumberEnd(t) ==
    LET d == IF t # <<>> /\ t[1] \in {43, 45} THEN 2 ELSE 1 IN
    IF DigitsEnd(t, d) = d THEN 0
    ELSE IF /\ DigitsEnd(t, d) < Len(t)
            /\ t[DigitsEnd(t, d)] = 46
            /\ DigitsEnd(t, DigitsEnd(t, d) + 1) > DigitsEnd(t, d) + 1
    THEN DigitsEnd(t, DigitsEnd(t, d) + 1)
    ELSE DigitsEnd(t, d)

\* num_str.parse::<f64>() of t[1..n-1], which NumberEnd matched, in
\* thousandths (the model's numbers are integers; digits behind the third
\* decimal place are dropped)
Thousandths(t, n) ==
    LET d == IF t[1] \in {43, 45} THEN 2 ELSE 1
        e == DigitsEnd(t, d)
        f == IF n - e - 1 > 3 THEN 3 ELSE IF n > e THEN n - e - 1 ELSE 0
    IN  (IF t[1] = 45 THEN 0 - 1 ELSE 1)
        * (DecValue(t, d, e - 1) * 1000
           + DecValue(t, e + 1, e + f) * (IF f = 1 THEN 100 ELSE IF f = 2 THEN 10 ELSE 1))

\* the multiplier of evaluate_numeric_item for what follows the number, in
\* lower case: the binary prefixes are tried before the SI ones.  (g, t, p, e,
\* z, y and their binary forms give values beyond the integers of the model
\* and are left out; no cell of TableLines has one.)
Multiplier(rest) ==
    LET l == [i \in 1..Len(rest) |->
                 IF rest[i] >= 65 /\ rest[i] <= 90 THEN rest[i] + 32 ELSE rest[i]]
    IN  IF HasAt(l, 1, <<107, 105>>) THEN 1024
        ELSE IF HasAt(l, 1, <<109, 105>>) THEN 1048576
        ELSE IF HasAt(l, 1, <<107>>) THEN 1000
        ELSE IF HasAt(l, 1, <<109>>) THEN 1000000
        ELSE 1

\* evaluate_numeric_item(s), in thousandths: 0 where s starts with no number.
\* (s.parse::<f64>() is tried first and gives the same value for every text it
\* reads that has no exponent, no leading dot and is not inf or nan; no cell
\* of TableLines is one of those.)
evaluate_numeric_item(s) ==
    LET t == Trimmed(s)
        n == NumberEnd(t)
    IN  IF n = 0 THEN 0
        ELSE Thousandths(t, n) * Multiplier(Trimmed(SubSeq(t, n, Len(t))))

\* detect_column_properties(rows): for every column the visible length of its
\* widest cell, and whether every cell but its first is numeric or neutral;
\* columns[c] are the cells the rows have in column c, in the order of the rows
detect_column_properties(rows) ==
    LET num_cols == MaxOf([r \in 1..Len(rows) |-> Len(rows[r])], 1)
        columns == [c \in 1..num_cols |->
                       LET R == Ascending({r \in 1..Len(rows) : Len(rows[r]) >= c})
                       IN  [k \in 1..Len(R) |-> rows[R[k]][c]]]
    IN  [widths |->
            [c \in 1..num_cols |->
                MaxOf([k \in 1..Len(columns[c]) |-> visible_len(columns[c][k])], 1)],
         is_numeric |->
            [c \in 1..num_cols |->
                \A k \in 2..Len(columns[c]) : is_numeric_or_neutral(columns[c][k])]]

\* format_row: every column's cell (an empty one where the row has none)
\* padded to the column's width, on the left if the column is numeric, on the
\* right if not, and a spacer behind each but the last; {:>width$} and
\* {:<width$} count the characters of the cell
format_row(cells, widths, is_numeric, sep_width) ==
    LET Cell(c) == IF c <= Len(cells) THEN cells[c] ELSE <<>>
        Pad(c) == Spaces(SaturatingSub(widths[c],
                      Cardinality({i \in 1..Len(Cell(c)) : ~IsCont(Cell(c), i)})))
        text == Flatten([c \in 1..Len(widths) |->
                    (IF is_numeric[c] THEN Pad(c) \o Cell(c) ELSE Cell(c) \o Pad(c))
                    \o Spaces(sep_width)])
    IN  SubSeq(text, 1, SaturatingSub(Len(text), sep_width))

\* the sort of format_table on column idx (0-based): by number, the sorted
\* rows reversed, where the column is numeric, else by the text of the cell;
\* a row with no such cell counts as 0.0 or as the empty text.  The sorts of
\* slices are stable: a row comes after the rows whose key is before its key,
\* and after the earlier rows of an equal key.
SortRows(rows, idx, numeric) ==
    LET Before(a, b) ==
            IF numeric
            THEN (IF idx < Len(a) THEN evaluate_numeric_item(a[idx + 1]) ELSE 0)
                 < (IF idx < Len(b) THEN evaluate_numeric_item(b[idx + 1]) ELSE 0)
            ELSE StrLess(IF idx < Len(a) THEN a[idx + 1] ELSE <<>>,
                         IF idx < Len(b) THEN b[idx + 1] ELSE <<>>)
        s == [k \in 1..Len(rows) |->
                rows[CHOOSE i \in 1..Len(rows) :
                        Cardinality({j \in 1..Len(rows) :
                            \/ Before(rows[j], rows[i])
                            \/ (~Before(rows[i], rows[j]) /\ j < i)}) = k - 1]]
    IN  IF numeric THEN [k \in 1..Len(s) |-> s[Len(s) + 1 - k]] ELSE s

\* every row sorted, the first one too, whatever its cell in the column is
ArrangeRowsSortingAll(rows, col_idx, is_numeric) ==
    IF col_idx = <<>> THEN Ok(rows, 0)
    ELSE IF rows = <<>> THEN Fail
    ELSE IF col_idx[1] >= Len(rows[1]) THEN Fail
    ELSE Ok(SortRows(rows, col_idx[1], is_numeric[col_idx[1] + 1]), 0)

\* the rows of format_table in their final order: as they are with no sort
\* column; else sorted, the first row with the others if its cell in the
\* column is a number other than 0, kept in front if not.  Not ok where the
\* code panics: rows.remove(0) on no rows, rows[0][idx] on a first row with no
\* such cell.
ArrangeRows(rows, col_idx, is_numeric) ==
    IF col_idx = <<>> THEN Ok(rows, 0)
    ELSE IF rows = <<>> THEN Fail
    ELSE IF col_idx[1] >= Len(rows[1]) THEN Fail
    ELSE IF evaluate_numeric_item(rows[1][col_idx[1] + 1]) # 0
    THEN Ok(SortRows(rows, col_idx[1], is_numeric[col_idx[1] + 1]), 0)
    ELSE Ok(<<rows[1]>> \o SortRows(Tail(rows), col_idx[1], is_numeric[col_idx[1] + 1]), 0)

\* format_table(lines, separator, col_idx): the lines of the table; not ok
\* where the code panics
format_table(ls, separator, col_idx) ==
    LET rows == [i \in 1..Len(ls) |-> split_row(ls[i])]
        props == detect_column_properties(rows)
        arranged == ArrangeRows(rows, col_idx, props.is_numeric)
    IN  IF ~arranged.ok THEN Fail
        ELSE Ok([i \in 1..Len(arranged.val) |->
                    format_row(arranged.val[i], props.widths, props.is_numeric,
                               separator)], 0)

\* the lines the model formats: a blank line, a header, rows that start with
\* a number, a number with a multiplier behind a tab, blanks around the cells
\* and a blank inside one, a row that starts with 0, a row of one cell, a wide
\* glyph and a decimal
TableLines ==
    [blank |-> <<>>,
     head |-> <<110, 32, 32, 119>>,                             \* n  w
     five |-> <<53, 32, 32, 97>>,                               \* 5  a
     tenk |-> <<49, 48, 107, 9, 98>>,                           \* 10k<tab>b
     spaced |-> <<32, 32, 50, 32, 32, 32, 99, 32, 100, 32>>,    \* '  2   c d '
     zero |-> <<48, 32, 32, 121>>,                              \* 0  y
     lone |-> <<51>>,                                           \* 3
     wide |-> <<227, 131, 143, 32, 32, 57, 46, 53>>]            \* U+30CF  9.5

\* the longest table of the model
MaxRows == 3

\* format_table is called on a table of up to MaxRows lines, with no sort
\* column or with column 0 or 1
TableInit ==
    /\ lines \in UNION {[1..n -> {TableLines[f] : f \in DOMAIN TableLines}] :
                           n \in 0..MaxRows}
    /\ keys \in {<<>>, <<0>>, <<1>>}
    /\ tree = TreeEmpty
    /\ tfile = NoFile
    /\ pc = "idle"
    /\ prefixes = <<>>
    /\ stack = <<>>
    /\ out = <<>>
    /\ listing = <<>>
    /\ history = [a \in PrefixArgs |-> {}]
    /\ before = tfile
    /\ manifest = <<>>
    /\ rendered = <<>>
    /\ last = "none"
    /\ dirKind = "dir"
    /\ relPath = <<>>
    /\ encoded = <<>>
    /\ decoded = <<>>

\* format_table(&lines, DEFAULT_SEPARATOR, col_idx); lines are the input
\* lines, keys the col_idx, rendered the lines returned
FormatTable ==
    /\ pc = "idle"
    /\ last = "none"
    /\ LET r == format_table(lines, DEFAULT_SEPARATOR, keys) IN
       IF r.ok
       THEN /\ rendered' = r.val
            /\ last' = "format"
            /\ UNCHANGED <<tree, tfile, pc, prefixes, stack, out, listing, lines,
                           history, before, keys, manifest, dirKind, relPath,
                           encoded, decoded>>
       ELSE Panic

\* check_immutability_on_2nd_run: format_table(&rendered, DEFAULT_SEPARATOR,
\* None); out are the lines returned
FormatAgain ==
    /\ pc = "idle"
    /\ last = "format"
    /\ out' = format_table(rendered, DEFAULT_SEPARATOR, <<>>).val
    /\ last' = "format_again"
    /\ UNCHANGED <<tree, tfile, pc, prefixes, stack, listing, lines, history,
                   before, keys, manifest, rendered, dirKind, relPath, encoded,
                   decoded>>

TableNext ==
    \/ FormatTable
    \/ FormatAgain

SpecTable == TableInit /\ [][TableNext]_vars

-----------------------------------------------------------------------------
(* tests.rs: the reference listing *)

\* the byte strings of a set in ascending byte order
RECURSIVE SortedStrings(_)
SortedStrings(S) ==
    IF S = {} THEN <<>>
    ELSE LET m == CHOOSE x \in S : \A y \in S : ~StrLess(y, x)
         IN  <<m>> \o SortedStrings(S \ {m})

\* find_escaped_output(dir): what find . -mindepth 1 -printf '%P\0' prints for
\* the tree (every entry below the root by its relative path, a directory
\* without a trailing slash), the tracking file's name dropped, then sorted
find_escaped_output(t) == SortedStrings(DOMAIN t \ {TRACKING_FILENAME})

-----------------------------------------------------------------------------
(* What the listing says of a path *)

\* p lies below the directory q
Under(p, q) == p # q /\ PathStartsWith(p, q)

\* the listing holds an entry for the relative path p
Listed(p) == \E i \in 1..Len(listing) : listing[i].record.encoded_path_b64 = B64Encode(p)

\* the entry the listing holds at position i is for p, of type ty, with key k
EntryIs(i, p, ty, k) ==
    /\ listing[i].record.encoded_path_b64 = B64Encode(p)
    /\ listing[i].record.ty = ty
    /\ listing[i].path_key = k

\* is the sequence of entries in ascending byte order of path_key?
SortedByBytes(es) ==
    \A i \in 1..(Len(es) - 1) : StrLess(es[i].path_key, es[i + 1].path_key)

\* the widest key_json of the listing, in display columns
WidestKey ==
    MaxOf([i \in 1..Len(listing) |-> get_str_visual_width(JsonString(listing[i].path_key))], 1)

\* the line the alignment rule gives for an entry
AlignedLine(e) ==
    JsonString(e.path_key)
    \o Spaces(WidestKey + 2 - get_str_visual_width(JsonString(e.path_key)))
    \o SerializeFileMeta(e.record).val

\* the index in a line of the first byte behind its key_json
KeyEnd(line) == ParseString(line, 1).pos

\* the index in a line of the first byte of its record_json
RecordStart(line) == SkipWs(line, KeyEnd(line))

\* the names of the record's wire format, as bytes
Wire ==
    [path_b64 |-> <<112, 97, 116, 104, 95, 98, 54, 52>>,
     encoded_path_b64 |->
        <<101, 110, 99, 111, 100, 101, 100, 95, 112, 97, 116, 104, 95, 98, 54, 52>>,
     ty |-> <<116, 121>>,
     size |-> <<115, 105, 122, 101>>,
     mtime_ns |-> <<109, 116, 105, 109, 101, 95, 110, 115>>,
     mode |-> <<109, 111, 100, 101>>,
     link_target |-> <<108, 105, 110, 107, 95, 116, 97, 114, 103, 101, 116>>,
     types |-> {<<34, 102, 105, 108, 101, 34>>,                     \* "file"
                <<34, 100, 105, 114, 34>>,                          \* "dir"
                <<34, 115, 121, 109, 108, 105, 110, 107, 34>>,      \* "symlink"
                <<34, 111, 116, 104, 101, 114, 34>>}]               \* "other"

\* the members of the JSON object a well-formed text holds from the key at
\* index j on, each as <<key, text of the value>>
RECURSIVE MembersFrom(_, _)
MembersFrom(s, j) ==
    LET k == ParseString(s, j)
        c == SkipWs(s, k.pos)
        b == SkipWs(s, c + 1)
        v == SkipValueAt(s, b)
        n == SkipWs(s, v.pos)
    IN  <<<<k.val, SubSeq(s, b, v.pos - 1)>>>>
        \o (IF n <= Len(s) /\ s[n] = 44 THEN MembersFrom(s, SkipWs(s, n + 1))
            ELSE <<>>)

\* is a line a JSON string, then a text in braces, then nothing but whitespace?
RecordIsObject(line) ==
    /\ ParseString(line, 1).ok
    /\ RecordStart(line) <= Len(line)
    /\ line[RecordStart(line)] = 123
    /\ \E i \in 1..Len(line) : line[i] = 125 /\ \A j \in (i + 1)..Len(line) : IsWs(line[j])

\* does a path_key end in a slash?
EndsInSlash(p) == p # <<>> /\ p[Len(p)] = 47

\* the content of a file without its empty lines
NoBlank(content) == FileText(SelectSeq(Lines(content), NonEmpty))

\* the members of the record_json of a line
RecordMembers(line) == MembersFrom(line, SkipWs(line, RecordStart(line) + 1))

\* the keys of the record_json of a line
RecordKeys(line) == {RecordMembers(line)[i][1] : i \in 1..Len(RecordMembers(line))}

\* the texts of the values the record_json of a line holds under a key
RecordValues(line, key) ==
    {RecordMembers(line)[i][2] : i \in {n \in 1..Len(RecordMembers(line)) :
                                           RecordMembers(line)[n][1] = key}}

-----------------------------------------------------------------------------
(* The claims *)

\* C1 (round-trip): a manifest that is serialized, whose lines are deserialized
\* by the strict parser, and the result serialized again, gives exactly the
\* lines of the first serialization: the same lines, padding and order.  Once
\* the first serialization has returned its lines, neither of the two later
\* steps panics.
RoundTrip ==
    /\ last = "reserialize" => rendered = lines
    /\ pc = "panicked" => last = "none"

\* a round trip of two or more entries, one with a backslash and a line feed in
\* its key, which deserialization returned in another order than they were given
RoundTripDone ==
    /\ last = "reserialize"
    /\ Len(lines) >= 2
    /\ manifest # listing
    /\ \E i \in 1..Len(listing) : listing[i].path_key = Key.backslash

\* C2 (determinism): for one tree and one prefix argument, every finished
\* write_tracking_file_with_content has produced the same lines in the same
\* order, whatever the order in which the walk yielded the entries.
Deterministic ==
    /\ \A a \in PrefixArgs : Cardinality(history[a]) <= 1
    /\ last = "write" => history[prefixes] = {lines}

\* a write of three or more entries has finished whose walk yielded them in
\* another order than the sorted one
WalkOrderDiffers ==
    /\ last = "write"
    /\ Len(out) >= 3
    /\ out # listing

\* C3 (prefix filtering): with the allowed prefixes {"sub/a"}, every entry
\* under sub/a is in the listing and every entry under sub/b is absent.
PrefixKeepsSubtree ==
    (last = "write" /\ prefixes = <<{Rel(<<Name.sub, Name.a>>)}>>) =>
        /\ \A p \in DOMAIN tree : Under(p, Rel(<<Name.sub, Name.a>>)) => Listed(p)
        /\ \A p \in DOMAIN tree : Under(p, Rel(<<Name.sub, Name.b>>)) => ~Listed(p)

\* C4 (non-destructive acquire): write_tracking_file leaves the content of a
\* tracking file that exists as it is, byte for byte, and creates an absent one
\* empty.
AcquireKeepsContent ==
    last = "acquire" =>
        /\ before.kind = "file" => tfile = before
        /\ before.kind = "none" => tfile = RegularFile(<<>>)

\* write_tracking_file has returned for a tracking file that held content
AcquiredPopulated ==
    /\ last = "acquire"
    /\ before.kind = "file"
    /\ before.content # <<>>
    /\ tfile.content = before.content

\* C5 (explicit write replaces content): when write_tracking_file_with_content
\* has returned, the tracking file holds exactly the lines of the new listing,
\* each ended by a line feed, whatever it held before.
WriteReplacesContent ==
    last = "write" => tfile.content = FileText(lines)

\* C6 (exclusion): the listing of a walk holds no entry for the root (the empty
\* relative path) and none for the relative path filesync_tracking.txt.
Exclusion ==
    /\ \A i \in 1..Len(out) :
        /\ out[i].record.encoded_path_b64 # B64Encode(<<>>)
        /\ out[i].record.encoded_path_b64 # B64Encode(TRACKING_FILENAME)
    /\ ~Listed(<<>>)
    /\ ~Listed(TRACKING_FILENAME)
    /\ \A i \in 1..Len(listing) :
        listing[i].path_key \notin {<<>>, <<47>>, TRACKING_FILENAME}

\* a walk of the whole tree has finished that met the tracking file in the root
\* and a file of the same name in a subdirectory, and lists the latter
WalkedPastTracker ==
    /\ last = "write"
    /\ prefixes = <<>>
    /\ TRACKING_FILENAME \in Children(tree, tfile, <<>>)
    /\ Listed(Rel(<<Name.d, TRACKING_FILENAME>>))

\* C7 (listing against find): the sorted path keys the lenient reader gives for
\* a tracking file that holds the listing of the whole tree are the sorted
\* relative paths find prints for the tree, the tracking file's name left out.
KeysEqualFind ==
    (/\ last = "read_keys"
     /\ \E ls \in history[<<>>] : tfile.content = FileText(ls)) =>
        keys = find_escaped_output(tree)

\* C8 as stated (scenario): the walk of the scenario tree gives exactly three
\* entries, f1/a.txt, f1/b.txt and f2/link.
ScenarioThreeEntries ==
    (last = "write" /\ tree = TreeScenario /\ prefixes = <<>>) =>
        /\ Len(listing) = 3
        /\ EntryIs(1, Rel(<<Name.f1, Name.a_txt>>), "file", Rel(<<Name.f1, Name.a_txt>>))
        /\ EntryIs(2, Rel(<<Name.f1, Name.b_txt>>), "file", Rel(<<Name.f1, Name.b_txt>>))
        /\ EntryIs(3, Rel(<<Name.f2, Name.link>>), "symlink", Rel(<<Name.f2, Name.link>>))

\* C8 (scenario, amended): the walk of the scenario tree gives exactly five
\* entries: the directories f1 and f2, with path_keys f1/ and f2/, beside
\* f1/a.txt, f1/b.txt and f2/link; f2/link has ty "symlink" and link_target
\* "../f1/b.txt", f1/a.txt has size 0, f1/b.txt has size 11.
ScenarioFiveEntries ==
    (last = "write" /\ tree = TreeScenario /\ prefixes = <<>>) =>
        /\ Len(listing) = 5
        /\ EntryIs(1, Name.f1, "dir", Append(Name.f1, 47))
        /\ EntryIs(2, Rel(<<Name.f1, Name.a_txt>>), "file", Rel(<<Name.f1, Name.a_txt>>))
        /\ EntryIs(3, Rel(<<Name.f1, Name.b_txt>>), "file", Rel(<<Name.f1, Name.b_txt>>))
        /\ EntryIs(4, Name.f2, "dir", Append(Name.f2, 47))
        /\ EntryIs(5, Rel(<<Name.f2, Name.link>>), "symlink", Rel(<<Name.f2, Name.link>>))
        /\ listing[2].record.size = <<0>>
        /\ listing[3].record.size = <<11>>
        /\ listing[5].record.link_target = <<<<46, 46, 47>> \o Rel(<<Name.f1, Name.b_txt>>)>>
        /\ listing[5].record.size = <<>>

\* the scenario tree has been walked
ScenarioWalked ==
    /\ last = "write"
    /\ tree = TreeScenario
    /\ prefixes = <<>>
    /\ Len(listing) > 0

\* C9 as stated (sortedness): the entries the walk returns, and those batch
\* deserialization returns, are in ascending byte order of the key text.
SortedBytewise ==
    /\ last = "write" => SortedByBytes(listing)
    /\ last = "read_manifest" => SortedByBytes(manifest)

\* C9 (sortedness, amended): the entries the walk returns, and those batch
\* deserialization returns, are in non-descending order of path_key as
\* std::path::Path orders paths: component by component, each component byte by
\* byte, a trailing slash not counting.
SortedAsPaths ==
    /\ last = "write" => SortedByPath(listing)
    /\ last = "read_manifest" => SortedByPath(manifest)

\* the entries a/, a/b and a-b have been read back from the tracking file, in
\* another order than their lines have in it
ReadBackReordered ==
    /\ last = "read_manifest"
    /\ tree = TreeOrder
    /\ Len(manifest) >= 3
    /\ \E i \in 1..Len(manifest) : manifest[i].path_key = Name.a_b
    /\ \E i \in 1..Len(manifest) : manifest[i].path_key = Rel(<<Name.a, Name.b>>)

\* C10 (alignment): every line Manifest::serialize returns is the key_json of
\* an entry, then (the widest key_json + 2 - the width of this key_json) spaces,
\* then its record_json, widths being display columns; so every record starts
\* in the same display column, two or more spaces behind its key.
Alignment ==
    last = "serialize" =>
        /\ Len(lines) = Len(listing)
        /\ \A i \in 1..Len(listing) : \E j \in 1..Len(lines) : lines[j] = AlignedLine(listing[i])
        /\ \A j \in 1..Len(lines) :
            /\ \E i \in 1..Len(listing) : lines[j] = AlignedLine(listing[i])
            /\ lines[j][RecordStart(lines[j])] = 123
            /\ RecordStart(lines[j]) - KeyEnd(lines[j]) >= 2
            /\ get_str_visual_width(SubSeq(lines[j], 1, RecordStart(lines[j]) - 1))
                 = WidestKey + 2

\* a manifest with a wide-glyph key and a wider ASCII key has been serialized
AlignedMixedWidths ==
    /\ last = "serialize"
    /\ \E i \in 1..Len(listing) : listing[i].path_key = Key.wide
    /\ \E i \in 1..Len(listing) : listing[i].path_key = Key.backslash

-----------------------------------------------------------------------------
(* C11  Lossless path encoding: for every relative path byte sequence (invalid
   UTF-8, an embedded line feed or NUL included) decoding the unpadded base64
   text of the path gives back exactly the bytes of the path, and the
   encoded_path_b64 field of an entry built for the path decodes to them. *)
LosslessEncoding ==
    /\ last = "encode" => pc # "panicked"
    /\ last = "decode" => decoded = <<relPath>>
    /\ last \in {"build", "serialize"} =>
            B64Decode(listing[1].record.encoded_path_b64) = Ok(relPath, 0)

\* a path of a byte that is no UTF-8, a NUL and a line feed was encoded and
\* decoded
LosslessDecoded == last = "decode" /\ relPath = <<255, 0, 10>>

(* C12  Non-UTF-8 paths are representable: for a relative path whose bytes are
   no valid UTF-8, building the entry and serializing it succeeds (no panic);
   the path_key is the lossy UTF-8 projection of the path (so it is valid
   UTF-8) while encoded_path_b64 still encodes the exact raw bytes. *)
NonUtf8Representable ==
    (~IsUtf8(relPath) /\ last \in {"build", "serialize"}) =>
        /\ pc # "panicked"
        /\ IsUtf8(listing[1].path_key)
        /\ B64Decode(listing[1].record.encoded_path_b64) = Ok(relPath, 0)

(* C14  Conditional fields: for every entry built by from_rel_path, size is
   present if and only if the node is a regular file, link_target if and only
   if it is a symlink; ty and mtime_ns are always present, in the entry and in
   the record it serializes to. *)
ConditionalFields ==
    /\ last \in {"build", "serialize"} =>
        /\ listing[1].record.ty = tree[relPath].ty
        /\ listing[1].record.mtime_ns \in Int
        /\ listing[1].record.size # <<>> <=> tree[relPath].ty = "file"
        /\ listing[1].record.link_target # <<>> <=> tree[relPath].ty = "symlink"
    /\ last = "serialize" =>
        /\ Wire.ty \in RecordKeys(lines[1])
        /\ Wire.mtime_ns \in RecordKeys(lines[1])
        /\ Wire.size \in RecordKeys(lines[1]) <=> tree[relPath].ty = "file"
        /\ Wire.link_target \in RecordKeys(lines[1]) <=> tree[relPath].ty = "symlink"

\* the entry of a symlink was built and serialized
ConditionalSymlinkSerialized ==
    last = "serialize" /\ tree[relPath].ty = "symlink" /\ pc = "idle"

(* C13  Directory suffix invariant: for every ManifestEntry held in a manifest,
   built from the filesystem (from_rel_path) or parsed from a line
   (deserialize_entry), path_key ends with a slash if and only if the entry's
   type is directory. *)
DirSuffix ==
    /\ \A i \in 1..Len(listing) :
            EndsInSlash(listing[i].path_key) <=> listing[i].record.ty = "dir"
    /\ \A i \in 1..Len(manifest) :
            EndsInSlash(manifest[i].path_key) <=> manifest[i].record.ty = "dir"

(* C18  Strict line parsing: deserialize_entry accepts a line only if it is a
   JSON string, then a well-formed record JSON object, followed by nothing but
   whitespace: whenever the strict reader returned entries, every non-empty
   line of the file had that form. *)
StrictLines ==
    last = "read_manifest" =>
        \A i \in 1..Len(Lines(before.content)) :
            Lines(before.content)[i] # <<>> => RecordIsObject(Lines(before.content)[i])

(* C19  Blank lines are ignored on read: each reader (the strict one into
   entries, the lenient one into path keys) reads a file that holds blank lines
   without error whenever it reads the file without them, and gives the result
   it gives for the file without them. *)
BlankLinesIgnored ==
    [][/\ ReadFilepaths =>
            /\ pc' = "panicked" <=>
                    ~read_tracking_file_into_filepaths(NoBlank(tfile.content)).ok
            /\ pc' = "idle" =>
                    keys' = read_tracking_file_into_filepaths(NoBlank(tfile.content)).val
       /\ ReadManifests =>
            /\ pc' = "panicked" <=> deserialize_manifest(NoBlank(tfile.content)) = {}
            /\ pc' = "idle" =>
                    manifest' \in deserialize_manifest(NoBlank(tfile.content))]_vars

(* C16  Record wire format, as stated: every serialized record is a JSON object
   whose keys are drawn from path_b64, ty, size, mtime_ns, mode, link_target;
   path_b64, ty and mtime_ns are always present, and ty is one of "file",
   "dir", "symlink", "other". *)
WireFormatPathB64 ==
    \A i \in 1..Len(lines) :
        /\ RecordIsObject(lines[i])
        /\ RecordKeys(lines[i]) \subseteq {Wire.path_b64, Wire.ty, Wire.size,
                                            Wire.mtime_ns, Wire.mode, Wire.link_target}
        /\ {Wire.path_b64, Wire.ty, Wire.mtime_ns} \subseteq RecordKeys(lines[i])
        /\ RecordValues(lines[i], Wire.ty) \subseteq Wire.types

(* C16, amended: the same with the path field under the key encoded_path_b64:
   every serialized record is a JSON object whose keys are drawn from
   encoded_path_b64, ty, size, mtime_ns, mode, link_target; encoded_path_b64, ty
   and mtime_ns are always present, and ty is one of "file", "dir", "symlink",
   "other". *)
WireFormat ==
    \A i \in 1..Len(lines) :
        /\ RecordIsObject(lines[i])
        /\ RecordKeys(lines[i]) \subseteq {Wire.encoded_path_b64, Wire.ty, Wire.size,
                                            Wire.mtime_ns, Wire.mode, Wire.link_target}
        /\ {Wire.encoded_path_b64, Wire.ty, Wire.mtime_ns} \subseteq RecordKeys(lines[i])
        /\ RecordValues(lines[i], Wire.ty) \subseteq Wire.types

\* three records were serialized, one with a link_target and one without a mode
WireFormatWritten ==
    /\ last = "serialize"
    /\ Len(lines) = 3
    /\ \E i \in 1..3 : Wire.link_target \in RecordKeys(lines[i])
    /\ \E i \in 1..3 : Wire.mode \notin RecordKeys(lines[i])

(* C17  Acquire failure cases: write_tracking_file(dir), called on its own or
   by write_tracking_file_with_content, panics and leaves what is at dir and
   at dir/filesync_tracking.txt as it was, when dir does not exist, when dir
   is no directory, and when the tracking path is taken by something that is
   no regular file (a directory, a symlink, a socket). *)
AcquireFails ==
    [][((Acquire \/ BeginWrite)
        /\ (dirKind # "dir" \/ tfile.kind \notin {"none", "file"}))
       => (pc' = "panicked" /\ tfile' = tfile /\ dirKind' = dirKind /\ tree' = tree)]_vars

\* a call has panicked over a symlink at the tracking path (the readers
\* follow the link and do not panic)
AcquireRefusedSymlink == pc = "panicked" /\ tfile.kind = "symlink"

(* C15  Symlinks are never followed: in every listing written, a symbolic link
   (to a file, a directory, itself, a path outside the root, or nothing)
   that the prefix filter lets through has exactly one entry, of type symlink,
   holding the link's own target; and no entry's path lies beneath a symlink. *)
SymlinksNotFollowed ==
    last = "write" =>
        \A p \in {q \in DOMAIN tree : tree[q].ty = "symlink"} :
            /\ prefixes = <<>> =>
                    Cardinality({i \in 1..Len(listing) :
                                    Components(listing[i].path_key) = Components(p)}) = 1
            /\ \A i \in 1..Len(listing) :
                    Components(listing[i].path_key) = Components(p) =>
                        /\ listing[i].path_key = p
                        /\ listing[i].record.ty = "symlink"
                        /\ listing[i].record.link_target = <<tree[p].target>>
                        /\ listing[i].record.size = <<>>
            /\ \A i \in 1..Len(listing) : ~Under(listing[i].path_key, p)

\* the tree with links to a directory, to itself, outside the root and to
\* nothing was listed whole
LinksListed ==
    /\ last = "write"
    /\ tree = TreeLinks
    /\ prefixes = <<>>
    /\ Len(listing) = 6

(* C20  Tolerated traversal failures: when another process deletes a file
   while write_tracking_file_with_content walks the tree, the walk does not
   panic over it, and the listing written holds every entry that is left. *)
TraversalTolerated ==
    /\ ~(pc = "panicked" /\ stack # <<>>)
    /\ (last = "write" /\ tree \notin Trees /\ prefixes = <<>>) =>
            \A p \in DOMAIN tree : Listed(p)


(* C21  No silent defaults: every failure while building an entry (reading
   symlink-level metadata, reading the link target, reading the modification
   time) aborts the operation; no entry is ever produced in which a field
   carries a substituted default value (such as mtime_ns = 0) in place of a
   value that could not be read.  Here: wherever from_rel_path has produced
   an entry, the node was there, its modification time could be read and
   mtime_ns is that time. *)
NoSilentDefaults ==
    last \in {"build", "serialize"} =>
        /\ relPath \in DOMAIN tree
        /\ tree[relPath].modified
        /\ listing[1].record.mtime_ns = tree[relPath].mtime


\* the key_json of a rendered line, and its record_json
KeyText(line) == SubSeq(line, 1, KeyEnd(line) - 1)

RecordText(line) == SubSeq(line, RecordStart(line), Len(line))

(* C24  Write order: the lines returned by Manifest::serialize are in
   ascending byte-wise order of the full rendered line text (key, padding and
   record together), so two entries with equal path_key are ordered by their
   record text; read order (deserialize) is by path_key only. *)
WriteOrder ==
    /\ last \in {"serialize", "deserialize", "reserialize"} =>
        /\ \A i \in 1..(Len(lines) - 1) : ~StrLess(lines[i + 1], lines[i])
        /\ \A i, j \in 1..Len(lines) :
              (i < j /\ KeyText(lines[i]) = KeyText(lines[j])) =>
                  ~StrLess(RecordText(lines[j]), RecordText(lines[i]))
    /\ last \in {"deserialize", "reserialize"} => SortedByPath(manifest)

\* two entries with one path_key were written in the order of their record
\* text and read back in the other order
WriteOrderTie ==
    /\ last = "deserialize"
    /\ Len(lines) = 3
    /\ KeyText(lines[1]) = KeyText(lines[2])
    /\ StrLess(RecordText(lines[1]), RecordText(lines[2]))
    /\ manifest[1].path_key = manifest[2].path_key
    /\ StrLess(SerializeFileMeta(manifest[2].record).val,
               SerializeFileMeta(manifest[1].record).val)


\* the text between the first quotation mark of a line and the next one, where
\* nothing but whitespace stands before the first: the value of the leading
\* JSON string of a line whose key holds no backslash and no control byte
LeadingString(line) ==
    IF /\ SkipWs(line, 1) < Len(line)
       /\ line[SkipWs(line, 1)] = 34
       /\ \E j \in (SkipWs(line, 1) + 1)..Len(line) : line[j] = 34
    THEN <<SubSeq(line, SkipWs(line, 1) + 1,
                  (CHOOSE j \in (SkipWs(line, 1) + 1)..Len(line) :
                      /\ line[j] = 34
                      /\ \A k \in (SkipWs(line, 1) + 1)..(j - 1) : line[k] # 34) - 1)>>
    ELSE <<>>

\* the leading strings of the lines of a text, None where a line has none
LeadingStrings(content) ==
    [k \in 1..Len(Lines(content)) |-> LeadingString(Lines(content)[k])]

(* C25  Lenient key reader: deserialize_path_key returns the value of the
   leading JSON string of a line and ignores everything after it, so it
   succeeds on a line whose record part is missing, malformed or followed by
   junk; it fails only when the line does not start with a valid JSON string.
   Here: reading the keys of a file succeeds exactly when every line has a
   leading string, and then gives the values of these strings, sorted. *)
LenientKeyReader ==
    [][ReadFilepaths =>
        IF \A k \in 1..Len(LeadingStrings(tfile.content)) :
              LeadingStrings(tfile.content)[k] # <<>>
        THEN /\ pc' = "idle"
             /\ keys' = SortStr([k \in 1..Len(LeadingStrings(tfile.content)) |->
                                    LeadingStrings(tfile.content)[k][1]])
        ELSE pc' = "panicked"]_vars

\* the keys of a line whose record is a number and of a line whose key ends
\* where its record should begin have been read
LenientKeysRead ==
    /\ last = "read_keys"
    /\ Lines(tfile.content) = <<Hand.number, Hand.open_key>>
    /\ keys = <<<<97, 32, 32, 123>>, <<98>>>>


(* C26  In the files_sync crate, after write_tracking_file(dir) is called on a
   directory that holds a populated fixture tree, the tracking file it returns
   is not empty (it has at least one line). *)
FixtureTrackingNotEmpty ==
    (last = "count" /\ tree # TreeEmpty) => Len(lines) # 0


(* C22  Table formatter idempotence: with the default separator (2) and no
   sort column, formatting an already formatted table changes nothing:
   format_table(format_table(L)) == format_table(L) for every list of input
   lines L. *)
FormatIdempotent ==
    (last = "format_again" /\ keys = <<>>) => out = rendered

\* a table whose lines were not aligned has been formatted twice
FormattedTwice ==
    /\ last = "format_again"
    /\ keys = <<>>
    /\ lines = <<TableLines.head, TableLines.spaced, TableLines.tenk>>
    /\ rendered # lines
    /\ out = rendered

\* the line format_table gives for input line i, left where it is
FormattedLine(i) ==
    LET props == detect_column_properties([r \in 1..Len(lines) |-> split_row(lines[r])])
    IN  format_row(split_row(lines[i]), props.widths, props.is_numeric,
                   DEFAULT_SEPARATOR)

\* the first line returned is the first input line, the others are the other
\* input lines in some order
HeaderKept ==
    LET f == [i \in 1..Len(lines) |-> FormattedLine(i)] IN
    /\ Len(rendered) = Len(lines)
    /\ rendered[1] = f[1]
    /\ \E q \in Permutations(1..Len(lines)) :
            q[1] = 1 /\ rendered = [i \in 1..Len(lines) |-> f[q[i]]]

\* C23 as stated: whenever format_table is called with a sort column index,
\* the first input row (the header) is the first output row, and only the rows
\* after it are reordered.
SortKeepsHeader ==
    (last = "format" /\ keys # <<>>) => HeaderKept

(* C23  (amended) Table formatter sort keeps the header: whenever
   format_table is called with a sort column index and the first input row
   has a cell in that column that does not evaluate to a number other than 0,
   the call returns, the first input row (the header) is the first output
   row, and only the rows after it are reordered. *)
SortKeepsTextHeader ==
    (/\ keys # <<>>
     /\ lines # <<>>
     /\ keys[1] < Len(split_row(lines[1]))
     /\ evaluate_numeric_item(split_row(lines[1])[keys[1] + 1]) = 0) =>
        /\ pc = "idle"
        /\ last = "format" => HeaderKept

\* a table with a header has been sorted by its numeric column, and the rows
\* behind the header have changed places
SortedBelowHeader ==
    /\ last = "format"
    /\ keys = <<0>>
    /\ lines = <<TableLines.head, TableLines.five, TableLines.tenk>>
    /\ rendered = <<FormattedLine(1), FormattedLine(3), FormattedLine(2)>>

====
